---- MODULE Spec2Model ----
(***************************************************************************)
(* uC/OS-III thread local storage management, IAR implementation           *)
(* (TLS/IAR/os_tls.c): the TLS id allocator, the per-task TLS tables, the  *)
(* task hooks and the pool of OS_TLS_LOCK objects handed to the DLIB.      *)
(*                                                                         *)
(* Execution model.  One CPU.  Context 0 is the start-up code (main), it   *)
(* runs until OSStart(); contexts 1..NumTasks are the tasks, a task runs   *)
(* only while OSTCBCurPtr points at it.  CPU_CRITICAL_ENTER() disables     *)
(* interrupts, so no task switch happens until CPU_CRITICAL_EXIT():        *)
(* critOwner names the context inside a critical section.  An interrupt    *)
(* handler that calls a service runs it to completion on top of the        *)
(* current task, which is the behaviour of a switch to another task that   *)
(* makes the call and a switch back.                                       *)
(*                                                                         *)
(* Every call ends in pc = "ret", where frame[c] shows the arguments and   *)
(* the results of the call; Return(c) then clears the frame.               *)
(***************************************************************************)
EXTENDS Integers, Sequences, FiniteSets, TLC

\* ----------------------------------------------------------------- bounds
\* number of application tasks (TCBs)
NumTasks == 2
\* size of OS_TCB.TLS_Tbl[], set in os_cfg.h
OS_CFG_TLS_TBL_SIZE == 2
\* size of OS_TLS_LockPoolTbl[], _MAX_LOCK of the IAR library
OS_TLS_LOCK_MAX == 2
\* size of a DLIB per-thread segment, in words
SegSize == 2

\* ------------------------------------------------------------- vocabulary
Main == 0
Tasks == 1..NumTasks
Ctx == {Main} \cup Tasks
NoCtx == -1
NULL == 0
\* a TLS register holds a word: 0, or one of the words 1..NumTasks
Values == 0..NumTasks
\* the words callers store: 0 is what a cleared register holds
AppValues == 1..NumTasks
NoVal == NumTasks + 1
\* the static segment of the main thread, __segment_begin("__DLIB_PERTHREAD")
MainSeg == NumTasks + 1
\* the segments: those of the heap, one per task, and the static one
Segs == (Values \ {NULL}) \cup {MainSeg}
Slots == 0..(OS_CFG_TLS_TBL_SIZE - 1)
Ids == 0..OS_CFG_TLS_TBL_SIZE
Pool == 1..OS_TLS_LOCK_MAX
\* offsets of the symbols in a segment
Offsets == 0..(SegSize - 1)

OS_OPT_NONE == "OS_OPT_NONE"
OS_OPT_TASK_NO_TLS == "OS_OPT_TASK_NO_TLS"
OS_ERR_NONE == "OS_ERR_NONE"
OS_ERR_TLS_NO_MORE_AVAIL == "OS_ERR_TLS_NO_MORE_AVAIL"
OS_ERR_TLS_ID_INVALID == "OS_ERR_TLS_ID_INVALID"
OS_ERR_OS_NOT_RUNNING == "OS_ERR_OS_NOT_RUNNING"
OS_ERR_TLS_NOT_EN == "OS_ERR_TLS_NOT_EN"
OS_ERR_MUTEX == "OS_ERR_MUTEX"
OS_STATE_OS_STOPPED == "OS_STATE_OS_STOPPED"
OS_STATE_OS_RUNNING == "OS_STATE_OS_RUNNING"

VARIABLES
    OS_CFG_ARG_CHK_EN,       \* build option: argument checking compiled in
    osInitDone,              \* OSInit() has called OS_TLS_Init()
    OSRunning,               \* kernel state
    OSTCBCurPtr,             \* running task, NULL before OSStart()
    critOwner,               \* context with interrupts disabled, or NoCtx
    OS_TLS_NextAvailID,      \* next available TLS id
    OS_TLS_LibID,            \* id that holds the library segment pointer
    tcbState,                \* per TCB: "dormant", "created"
    Opt,                     \* per TCB: p_tcb->Opt, the TLS option bit
    TLS_Tbl,                 \* per TCB: p_tcb->TLS_Tbl[]
    segs,                    \* segments the DLIB allocator has handed out
    NextPtr,                 \* OS_TLS_LockPoolTbl[].NextPtr
    Mutex,                   \* OS_TLS_LockPoolTbl[].Mutex: "NONE", "CREATED"
    OS_TLS_LockPoolListPtr,  \* head of the free list
    pc,                      \* per context: position in its call
    frame,                   \* per context: arguments, locals, results
    issued,                  \* history: ids OS_TLS_GetID() has returned
    nAlloc,                  \* history: OS_TLS_GetID() calls by callers
    lastSet,                 \* history: value of the last successful Set
    handles,                 \* history: lock handles the callers hold
    nCreate,                 \* history: OS_TLS_LockCreate() calls since OS_TLS_Init()
    quiet,                   \* history: no LockDel, no OSMutexCreate error
    lifo,                    \* history: the free objects, the last one freed first
    holders,                 \* history: per object, the entry points holding it
    MutexOwner,              \* OS_TLS_LockPoolTbl[].Mutex: the task that owns it, or NULL
    holding,                 \* history: per task, the lock it has acquired
    stale,                   \* history: tasks whose lock was deleted under them
    registered,              \* history: ids given a destructor
    missed                   \* history: per task, destructors not called at its deletion

tlsVars == <<OS_TLS_NextAvailID, OS_TLS_LibID, issued, nAlloc>>
tcbVars == <<tcbState, Opt, TLS_Tbl, segs, lastSet>>
poolVars == <<NextPtr, Mutex, OS_TLS_LockPoolListPtr, handles, nCreate, quiet,
              lifo, holders>>
kernVars == <<osInitDone, OSRunning, OSTCBCurPtr>>
lockVars == <<MutexOwner, holding, stale>>
destrVars == <<registered, missed>>
vars == <<OS_CFG_ARG_CHK_EN, osInitDone, OSRunning, OSTCBCurPtr, critOwner,
          OS_TLS_NextAvailID, OS_TLS_LibID, tcbState, Opt, TLS_Tbl, segs,
          NextPtr, Mutex, OS_TLS_LockPoolListPtr, pc, frame,
          issued, nAlloc, lastSet, handles, nCreate, quiet, lifo, holders,
          MutexOwner, holding, stale, registered, missed>>

BlankFrame ==
    [op |-> "none", arg_tcb |-> NULL, p_tcb |-> NULL, id |-> 0, value |-> 0,
     p_tls_lock |-> NULL, err |-> OS_ERR_NONE, ret |-> 0,
     k |-> 0, pre |-> FALSE, expect |-> NoVal, fresh |-> FALSE,
     optSeen |-> "none", changed |-> FALSE,
     base |-> NULL, obj |-> NULL, via |-> "none", top |-> NULL, alone |-> FALSE, list0 |-> <<>>]

Created == {t \in Tasks : tcbState[t] = "created"}

\* A call's results are looked at in the instant it returns.
NoneReturning(C) == \A d \in C : pc[d] # "ret"

\* A context executes only while it has the CPU.
Runnable(c) ==
    /\ critOwner \in {NoCtx, c}
    /\ NoneReturning(Ctx \ {c})
    /\ IF c = Main
       THEN OSRunning = OS_STATE_OS_STOPPED
       ELSE OSRunning = OS_STATE_OS_RUNNING /\ OSTCBCurPtr = c

CanEnter(c) == Runnable(c) /\ critOwner = NoCtx

Min(a, b) == IF a < b THEN a ELSE b

\* Static initialisation of the file's variables and of the kernel's.
Init ==
    /\ OS_CFG_ARG_CHK_EN \in BOOLEAN
    /\ osInitDone = FALSE
    /\ OSRunning = OS_STATE_OS_STOPPED
    /\ OSTCBCurPtr = NULL
    /\ critOwner = NoCtx
    /\ OS_TLS_NextAvailID = 0
    /\ OS_TLS_LibID = 0
    /\ tcbState = [t \in Tasks |-> "dormant"]
    /\ Opt = [t \in Tasks |-> OS_OPT_NONE]
    /\ TLS_Tbl = [t \in Tasks |-> [i \in Slots |-> 0]]
    /\ segs = {}
    /\ NextPtr = [e \in Pool |-> NULL]
    /\ Mutex = [e \in Pool |-> "NONE"]
    /\ OS_TLS_LockPoolListPtr = NULL
    /\ pc = [c \in Ctx |-> "idle"]
    /\ frame = [c \in Ctx |-> BlankFrame]
    /\ issued = <<>>
    /\ nAlloc = 0
    /\ lastSet = [t \in Tasks |-> [i \in Slots |-> NoVal]]
    /\ handles = {}
    /\ nCreate = 0
    /\ quiet = TRUE
    /\ lifo = <<>>
    /\ holders = [e \in Pool |-> <<>>]
    /\ MutexOwner = [e \in Pool |-> NULL]
    /\ holding = [t \in Tasks |-> NULL]
    /\ stale = {}
    /\ registered = {}
    /\ missed = [t \in Tasks |-> {}]

\* ------------------------------------------------------------ OS_TLS_GetID
\* faulty variant: the counter is not incremented
Mut_GetID_NoIncrement(next) ==
    IF next >= OS_CFG_TLS_TBL_SIZE
    THEN [id |-> OS_CFG_TLS_TBL_SIZE, err |-> OS_ERR_TLS_NO_MORE_AVAIL, next |-> next]
    ELSE [id |-> next, err |-> OS_ERR_NONE, next |-> next]

\* faulty variant: the test is > instead of >=
Mut_GetID_OffByOne(next) ==
    IF next > OS_CFG_TLS_TBL_SIZE
    THEN [id |-> OS_CFG_TLS_TBL_SIZE, err |-> OS_ERR_TLS_NO_MORE_AVAIL, next |-> next]
    ELSE [id |-> next, err |-> OS_ERR_NONE, next |-> next + 1]

\* faulty variant: the counter is incremented before the test
Mut_GetID_CountOnFail(next) ==
    IF next >= OS_CFG_TLS_TBL_SIZE
    THEN [id |-> OS_CFG_TLS_TBL_SIZE, err |-> OS_ERR_TLS_NO_MORE_AVAIL, next |-> next + 1]
    ELSE [id |-> next, err |-> OS_ERR_NONE, next |-> next + 1]

\* The critical section of OS_TLS_GetID() on the counter value next.
GetID_Result(next) ==
    IF next >= OS_CFG_TLS_TBL_SIZE
    THEN [id |-> OS_CFG_TLS_TBL_SIZE, err |-> OS_ERR_TLS_NO_MORE_AVAIL, next |-> next]
    ELSE [id |-> next, err |-> OS_ERR_NONE, next |-> next + 1]

\* call and CPU_CRITICAL_ENTER()
OS_TLS_GetID_Enter(c) ==
    /\ osInitDone
    /\ pc[c] = "idle"
    /\ CanEnter(c)
    /\ critOwner' = c
    /\ pc' = [pc EXCEPT ![c] = "GetID_crit"]
    /\ nAlloc' = Min(nAlloc + 1, OS_CFG_TLS_TBL_SIZE + 1)
    /\ frame' = [frame EXCEPT ![c] =
                   [BlankFrame EXCEPT !.op = "GetID",
                                      !.k = nAlloc',
                                      !.pre = (Len(issued) = OS_CFG_TLS_TBL_SIZE)]]
    /\ UNCHANGED <<OS_CFG_ARG_CHK_EN, lockVars, destrVars, kernVars, OS_TLS_NextAvailID,
                   OS_TLS_LibID,
                   issued, tcbVars, poolVars>>

\* faulty variant: the error path returns without CPU_CRITICAL_EXIT()
Mut_GetID_Body_NoExitOnError(c) ==
    /\ pc[c] = "GetID_crit"
    /\ Runnable(c)
    /\ LET r == GetID_Result(OS_TLS_NextAvailID) IN
         /\ OS_TLS_NextAvailID' = r.next
         /\ issued' = IF r.err = OS_ERR_NONE THEN Append(issued, r.id) ELSE issued
         /\ frame' = [frame EXCEPT ![c].ret = r.id, ![c].err = r.err]
         /\ critOwner' = IF r.err = OS_ERR_NONE THEN NoCtx ELSE critOwner
    /\ pc' = [pc EXCEPT ![c] = "ret"]
    /\ UNCHANGED <<OS_CFG_ARG_CHK_EN, lockVars, destrVars, kernVars, OS_TLS_LibID, nAlloc,
                   tcbVars, poolVars>>

\* the test, the allocation, CPU_CRITICAL_EXIT() and the return statement
OS_TLS_GetID_Body(c) ==
    /\ pc[c] = "GetID_crit"
    /\ Runnable(c)
    /\ LET r == GetID_Result(OS_TLS_NextAvailID) IN
         /\ OS_TLS_NextAvailID' = r.next
         /\ issued' = IF r.err = OS_ERR_NONE THEN Append(issued, r.id) ELSE issued
         /\ frame' = [frame EXCEPT ![c].ret = r.id, ![c].err = r.err]
    /\ critOwner' = NoCtx
    /\ pc' = [pc EXCEPT ![c] = "ret"]
    /\ UNCHANGED <<OS_CFG_ARG_CHK_EN, lockVars, destrVars, kernVars, OS_TLS_LibID, nAlloc,
                   tcbVars, poolVars>>

\* ------------------------------------------------------------- OS_TLS_Init
\* faulty variant: the objects are not linked
Mut_InitNextPtr_Unlinked == [e \in Pool |-> NULL]

\* faulty variant: the last object points back at the first
Mut_InitNextPtr_Ring == [e \in Pool |-> IF e < OS_TLS_LOCK_MAX THEN e + 1 ELSE 1]

\* The list OS_TLS_Init() builds: entry ix points at ix + 1, the last at NULL.
InitNextPtr == [e \in Pool |-> IF e < OS_TLS_LOCK_MAX THEN e + 1 ELSE NULL]

\* faulty variant: OS_TLS_Init() does not take an id for the library
Mut_Init_NoLibID ==
    /\ ~osInitDone
    /\ pc[Main] = "idle"
    /\ CanEnter(Main)
    /\ OS_TLS_NextAvailID' = 0
    /\ OS_TLS_LibID' = 0
    /\ issued' = <<>>
    /\ critOwner' = Main
    /\ pc' = [pc EXCEPT ![Main] = "Init_crit"]
    /\ UNCHANGED <<OS_CFG_ARG_CHK_EN, lockVars, destrVars, kernVars, nAlloc,
                   tcbVars, poolVars, frame>>

\* Called once by OSInit(), from the start-up code, before any other service:
\* the counter is reset, OS_TLS_GetID() gives the id of the library, and
\* CPU_CRITICAL_ENTER().
OS_TLS_Init ==
    /\ ~osInitDone
    /\ pc[Main] = "idle"
    /\ CanEnter(Main)
    /\ LET r == GetID_Result(0) IN
         /\ OS_TLS_NextAvailID' = r.next
         /\ OS_TLS_LibID' = r.id
         /\ issued' = IF r.err = OS_ERR_NONE THEN <<r.id>> ELSE <<>>
    /\ critOwner' = Main
    /\ pc' = [pc EXCEPT ![Main] = "Init_crit"]
    /\ UNCHANGED <<OS_CFG_ARG_CHK_EN, lockVars, destrVars, kernVars, nAlloc,
                   tcbVars, poolVars, frame>>

\* the critical section of OS_TLS_Init(): the list is built, then
\* CPU_CRITICAL_EXIT() and the return
OS_TLS_Init_Body ==
    /\ pc[Main] = "Init_crit"
    /\ Runnable(Main)
    /\ NextPtr' = InitNextPtr
    /\ OS_TLS_LockPoolListPtr' = 1
    /\ osInitDone' = TRUE
    /\ quiet' = TRUE
    /\ lifo' = [i \in 1..OS_TLS_LOCK_MAX |-> i]
    /\ critOwner' = NoCtx
    /\ pc' = [pc EXCEPT ![Main] = "idle"]
    /\ UNCHANGED <<OS_CFG_ARG_CHK_EN, lockVars, destrVars, OSRunning, OSTCBCurPtr, tlsVars,
                   tcbVars, Mutex, handles, nCreate, holders, frame>>

\* ------------------------------------------------------- the kernel's part
\* OSStart(): the start-up code hands the CPU to a created task for good.
OSStart ==
    /\ osInitDone
    /\ OSRunning = OS_STATE_OS_STOPPED
    /\ pc[Main] = "idle"
    /\ critOwner = NoCtx
    /\ NoneReturning(Ctx)
    /\ \E t \in Created : OSTCBCurPtr' = t
    /\ OSRunning' = OS_STATE_OS_RUNNING
    /\ UNCHANGED <<OS_CFG_ARG_CHK_EN, lockVars, destrVars, osInitDone, critOwner, tlsVars, tcbVars,
                   poolVars, pc, frame>>

\* OSSched() / OSIntExit(): a context switch, possible only with interrupts
\* enabled.  OS_TLS_TaskSw() is called on the way and does nothing.
OS_TLS_TaskSw ==
    /\ OSRunning = OS_STATE_OS_RUNNING
    /\ critOwner = NoCtx
    /\ NoneReturning(Ctx)
    /\ \E t \in Created \ {OSTCBCurPtr} : OSTCBCurPtr' = t
    /\ UNCHANGED <<OS_CFG_ARG_CHK_EN, lockVars, destrVars, osInitDone, OSRunning, critOwner,
                   tlsVars,
                   tcbVars, poolVars, pc, frame>>

\* ------------------------------------------------------- OS_TLS_TaskCreate
\* __iar_dlib_perthread_allocate(): the segment the heap gives task t.
\* Segments of different tasks are different and none is NULL.
perthread_allocate(t) == t

\* faulty variant: a segment is allocated whatever the option says
Mut_TaskCreate_IgnoreOpt(t, opt) ==
    [tbl |-> [i \in Slots |-> IF i = OS_TLS_LibID THEN perthread_allocate(t) ELSE 0],
     segs |-> segs \cup {perthread_allocate(t)},
     init |-> {perthread_allocate(t)}]

\* faulty variant: the segment pointer is stored in every entry
Mut_TaskCreate_AllSlots(t, opt) ==
    IF opt = OS_OPT_NONE
    THEN [tbl |-> [i \in Slots |-> perthread_allocate(t)],
          segs |-> segs \cup {perthread_allocate(t)},
          init |-> {perthread_allocate(t)}]
    ELSE [tbl |-> [i \in Slots |-> 0], segs |-> segs, init |-> {}]

\* The hook on the TCB t whose TLS_Tbl[] the kernel has cleared: with TLS
\* enabled, a segment is allocated and its pointer stored in the library slot.
\* init is the set of segments __iar_dlib_perthread_initialize() is called on.
OS_TLS_TaskCreate(t, opt) ==
    IF opt = OS_OPT_NONE
    THEN [tbl |-> [i \in Slots |-> IF i = OS_TLS_LibID THEN perthread_allocate(t) ELSE 0],
          segs |-> segs \cup {perthread_allocate(t)},
          init |-> {perthread_allocate(t)}]
    ELSE [tbl |-> [i \in Slots |-> 0], segs |-> segs, init |-> {}]

\* OSTaskCreate(p_tcb = t, opt) called by the running context c: the kernel
\* clears TLS_Tbl[] (note 2 of the hook), stores opt, and calls the hook.
OSTaskCreate(c, t, opt) ==
    /\ osInitDone
    /\ pc[c] = "idle"
    /\ CanEnter(c)
    /\ tcbState[t] = "dormant"
    /\ pc[t] = "idle"
    /\ tcbState' = [tcbState EXCEPT ![t] = "created"]
    /\ Opt' = [Opt EXCEPT ![t] = opt]
    /\ lastSet' = [lastSet EXCEPT ![t] = [i \in Slots |-> NoVal]]
    /\ LET r == OS_TLS_TaskCreate(t, opt) IN
         /\ TLS_Tbl' = [TLS_Tbl EXCEPT ![t] = r.tbl]
         /\ segs' = r.segs
    /\ UNCHANGED <<OS_CFG_ARG_CHK_EN, lockVars, destrVars, kernVars, critOwner, tlsVars,
                   poolVars, pc, frame>>

\* ---------------------------------------------------------- OS_TLS_TaskDel
\* The segment __iar_dlib_perthread_access() resolves against: the static
\* one while the kernel is not running, then what the library entry of the
\* running task holds.
AccessBase ==
    IF OSRunning # OS_STATE_OS_RUNNING
    THEN MainSeg
    ELSE TLS_Tbl[OSTCBCurPtr][OS_TLS_LibID]

\* __iar_dlib_perthread_destroy(): the segment the teardown works on.  The
\* call has no argument: it is the segment of the thread that makes the
\* call, whatever p_tls the hook has read.
perthread_destroy(p_tls) == AccessBase

\* The hook on the TCB t: with TLS enabled, the segment the library slot
\* points at is freed and the slot cleared.  torn is the set of segments the
\* teardown runs on, freed what __iar_dlib_perthread_deallocate() is given.
OS_TLS_TaskDel(t) ==
    IF Opt[t] = OS_OPT_NONE
    THEN LET p_tls == TLS_Tbl[t][OS_TLS_LibID] IN
         [tbl |-> [TLS_Tbl[t] EXCEPT ![OS_TLS_LibID] = 0],
          segs |-> segs \ {p_tls},
          calls |-> {},
          torn |-> {perthread_destroy(p_tls)},
          freed |-> {p_tls}]
    ELSE [tbl |-> TLS_Tbl[t], segs |-> segs, calls |-> {}, torn |-> {}, freed |-> {}]

\* OSTaskDel(p_tcb = t) called by the running context c, between two calls
\* of t: the kernel calls the hook, then OS_TaskInitTCB() puts the TCB back
\* to its defaults (TLS_Tbl[] cleared, Opt 0).  A task that deletes itself
\* gives the CPU to another task.
OSTaskDel(c, t) ==
    /\ osInitDone
    /\ pc[c] = "idle"
    /\ CanEnter(c)
    /\ tcbState[t] = "created"
    /\ pc[t] = "idle"
    /\ tcbState' = [tcbState EXCEPT ![t] = "dormant"]
    /\ lastSet' = [lastSet EXCEPT ![t] = [i \in Slots |-> NoVal]]
    /\ LET r == OS_TLS_TaskDel(t) IN
         /\ segs' = r.segs
         /\ TLS_Tbl' = [TLS_Tbl EXCEPT ![t] = [i \in Slots |-> 0]]
         /\ missed' = [missed EXCEPT ![t] =
                          IF Opt[t] = OS_OPT_NONE
                          THEN {id \in registered : id < OS_TLS_NextAvailID} \ r.calls
                          ELSE {}]
    /\ Opt' = [Opt EXCEPT ![t] = OS_OPT_NONE]
    /\ IF OSTCBCurPtr = t
       THEN \E n \in Created \ {t} : OSTCBCurPtr' = n
       ELSE OSTCBCurPtr' = OSTCBCurPtr
    /\ UNCHANGED <<OS_CFG_ARG_CHK_EN, lockVars, registered, osInitDone, OSRunning, critOwner,
                   tlsVars,
                   poolVars, pc, frame>>

\* ------------------------------------------------- OS_TLS_GetValue/SetValue
\* the task a p_tcb argument stands for: NULL is the current task
Resolve(p) == IF p = NULL THEN OSTCBCurPtr ELSE p

\* history: the value the last successful Set left in (task, id), if any
Expect(p, id) ==
    IF Resolve(p) = NULL \/ id \notin Slots THEN NoVal ELSE lastSet[Resolve(p)][id]

\* history: the task exists and no Set has succeeded on it since its creation
Fresh(p) ==
    /\ Resolve(p) # NULL
    /\ tcbState[Resolve(p)] = "created"
    /\ \A i \in Slots : lastSet[Resolve(p)][i] = NoVal

\* Arguments a caller can pass: p_tcb is NULL or a task that exists; without
\* argument checking the caller has to keep id inside TLS_Tbl[].
ValueArgs(p, id) ==
    /\ p \in {NULL} \cup Created
    /\ id \in Ids
    /\ OS_CFG_ARG_CHK_EN \/ id \in Slots

\* faulty variant: the test is > instead of >=
Mut_ArgChk_OffByOne(id) == OS_CFG_ARG_CHK_EN /\ id > OS_TLS_NextAvailID

\* The argument check of OS_TLS_GetValue() and OS_TLS_SetValue(), compiled
\* in when OS_CFG_ARG_CHK_EN > 0: the id has not been assigned.
ArgChkFails(id) == OS_CFG_ARG_CHK_EN /\ id >= OS_TLS_NextAvailID

\* Call and the argument check, made before the critical section.  The
\* check reads id only; p_tcb (and value) are first read in the critical
\* section, and a call that gets there draws them there: the task p_tcb
\* names may have been deleted since the call.
OS_TLS_GetValue_Call(c, p, id) ==
    /\ osInitDone
    /\ pc[c] = "idle"
    /\ CanEnter(c)
    /\ ValueArgs(p, id)
    /\ LET f == [BlankFrame EXCEPT !.op = "GetValue", !.id = id,
                                   !.pre = (id >= OS_TLS_NextAvailID)] IN
       IF ArgChkFails(id)
       THEN /\ frame' = [frame EXCEPT ![c] =
                           [f EXCEPT !.arg_tcb = p, !.p_tcb = p,
                                     !.err = OS_ERR_TLS_ID_INVALID, !.ret = 0,
                                     !.expect = Expect(p, id)]]
            /\ pc' = [pc EXCEPT ![c] = "ret"]
       ELSE /\ frame' = [frame EXCEPT ![c] = f]
            /\ pc' = [pc EXCEPT ![c] = "GetValue_enter"]
    /\ UNCHANGED <<OS_CFG_ARG_CHK_EN, lockVars, destrVars, kernVars, critOwner, tlsVars,
                   tcbVars, poolVars>>

\* faulty variant: the critical section is not entered
Mut_GetValue_Enter_NoCrit(c) ==
    /\ pc[c] = "GetValue_enter"
    /\ CanEnter(c)
    /\ pc' = [pc EXCEPT ![c] = "GetValue_crit"]
    /\ UNCHANGED <<OS_CFG_ARG_CHK_EN, lockVars, destrVars, kernVars, tlsVars, tcbVars,
                   poolVars, frame, critOwner>>

\* CPU_CRITICAL_ENTER()
OS_TLS_GetValue_Enter(c) ==
    /\ pc[c] = "GetValue_enter"
    /\ CanEnter(c)
    /\ critOwner' = c
    /\ pc' = [pc EXCEPT ![c] = "GetValue_crit"]
    /\ UNCHANGED <<OS_CFG_ARG_CHK_EN, lockVars, destrVars, kernVars, tlsVars, tcbVars,
                   poolVars, frame>>

\* faulty variant: no test of OSTCBCurPtr
Mut_GetValue_NoRunningTest(t, id) ==
    IF t = NULL THEN [err |-> OS_ERR_NONE, ret |-> 0]
    ELSE IF Opt[t] = OS_OPT_NONE THEN [err |-> OS_ERR_NONE, ret |-> TLS_Tbl[t][id]]
    ELSE [err |-> OS_ERR_TLS_NOT_EN, ret |-> 0]

\* The critical section of OS_TLS_GetValue() for the resolved task t (NULL
\* when there is no current task): test the option, read the entry.
GetValue_Crit(t, id) ==
    IF t = NULL THEN [err |-> OS_ERR_OS_NOT_RUNNING, ret |-> 0]
    ELSE IF Opt[t] = OS_OPT_NONE THEN [err |-> OS_ERR_NONE, ret |-> TLS_Tbl[t][id]]
    ELSE [err |-> OS_ERR_TLS_NOT_EN, ret |-> 0]

\* the critical section, CPU_CRITICAL_EXIT() and the return statement
OS_TLS_GetValue_Body(c, p) ==
    /\ pc[c] = "GetValue_crit"
    /\ Runnable(c)
    /\ p \in {NULL} \cup Tasks
    /\ LET f == frame[c]
           t == Resolve(p)
           r == GetValue_Crit(t, f.id) IN
         frame' = [frame EXCEPT ![c] =
                     [f EXCEPT !.arg_tcb = p, !.p_tcb = t, !.err = r.err, !.ret = r.ret,
                               !.expect = Expect(p, f.id),
                               !.fresh = Fresh(p),
                               !.optSeen = IF t = NULL THEN "none" ELSE Opt[t]]]
    /\ critOwner' = NoCtx
    /\ pc' = [pc EXCEPT ![c] = "ret"]
    /\ UNCHANGED <<OS_CFG_ARG_CHK_EN, lockVars, destrVars, kernVars, tlsVars, tcbVars, poolVars>>

\* call and the argument check, as in OS_TLS_GetValue()
OS_TLS_SetValue_Call(c, p, id, value) ==
    /\ osInitDone
    /\ pc[c] = "idle"
    /\ CanEnter(c)
    /\ ValueArgs(p, id)
    /\ value \in AppValues
    /\ LET f == [BlankFrame EXCEPT !.op = "SetValue", !.id = id,
                                   !.pre = (id >= OS_TLS_NextAvailID)] IN
       IF ArgChkFails(id)
       THEN /\ frame' = [frame EXCEPT ![c] =
                           [f EXCEPT !.arg_tcb = p, !.p_tcb = p,
                                     !.err = OS_ERR_TLS_ID_INVALID]]
            /\ pc' = [pc EXCEPT ![c] = "ret"]
       ELSE /\ frame' = [frame EXCEPT ![c] = f]
            /\ pc' = [pc EXCEPT ![c] = "SetValue_enter"]
    /\ UNCHANGED <<OS_CFG_ARG_CHK_EN, lockVars, destrVars, kernVars, critOwner, tlsVars,
                   tcbVars, poolVars>>

\* CPU_CRITICAL_ENTER()
OS_TLS_SetValue_Enter(c) ==
    /\ pc[c] = "SetValue_enter"
    /\ CanEnter(c)
    /\ critOwner' = c
    /\ pc' = [pc EXCEPT ![c] = "SetValue_crit"]
    /\ UNCHANGED <<OS_CFG_ARG_CHK_EN, lockVars, destrVars, kernVars, tlsVars, tcbVars,
                   poolVars, frame>>

\* faulty variant: the value goes to the table of the running task
Mut_SetValue_Current(t, id, value) ==
    IF t = NULL THEN [err |-> OS_ERR_OS_NOT_RUNNING, tbl |-> TLS_Tbl]
    ELSE IF Opt[t] = OS_OPT_NONE
    THEN [err |-> OS_ERR_NONE,
          tbl |-> IF OSTCBCurPtr = NULL THEN TLS_Tbl
                  ELSE [TLS_Tbl EXCEPT ![OSTCBCurPtr][id] = value]]
    ELSE [err |-> OS_ERR_TLS_NOT_EN, tbl |-> TLS_Tbl]

\* faulty variant: the value goes to the library entry
Mut_SetValue_LibSlot(t, id, value) ==
    IF t = NULL THEN [err |-> OS_ERR_OS_NOT_RUNNING, tbl |-> TLS_Tbl]
    ELSE IF Opt[t] = OS_OPT_NONE
    THEN [err |-> OS_ERR_NONE, tbl |-> [TLS_Tbl EXCEPT ![t][OS_TLS_LibID] = value]]
    ELSE [err |-> OS_ERR_TLS_NOT_EN, tbl |-> TLS_Tbl]

\* faulty variant: no test of the task's option
Mut_SetValue_IgnoreOpt(t, id, value) ==
    IF t = NULL THEN [err |-> OS_ERR_OS_NOT_RUNNING, tbl |-> TLS_Tbl]
    ELSE [err |-> OS_ERR_NONE, tbl |-> [TLS_Tbl EXCEPT ![t][id] = value]]

\* The critical section of OS_TLS_SetValue() for the resolved task t (NULL
\* when there is no current task): test the option, write the entry.
SetValue_Crit(t, id, value) ==
    IF t = NULL THEN [err |-> OS_ERR_OS_NOT_RUNNING, tbl |-> TLS_Tbl]
    ELSE IF Opt[t] = OS_OPT_NONE
    THEN [err |-> OS_ERR_NONE, tbl |-> [TLS_Tbl EXCEPT ![t][id] = value]]
    ELSE [err |-> OS_ERR_TLS_NOT_EN, tbl |-> TLS_Tbl]

\* the critical section, CPU_CRITICAL_EXIT() and the return statement
OS_TLS_SetValue_Body(c, p, value) ==
    /\ pc[c] = "SetValue_crit"
    /\ Runnable(c)
    /\ p \in {NULL} \cup Tasks
    /\ value \in AppValues
    /\ LET f == frame[c]
           t == Resolve(p)
           r == SetValue_Crit(t, f.id, value) IN
         /\ TLS_Tbl' = r.tbl
         /\ lastSet' = IF r.err = OS_ERR_NONE /\ tcbState[t] = "created"
                       THEN [lastSet EXCEPT ![t][f.id] = value]
                       ELSE lastSet
         /\ frame' = [frame EXCEPT ![c] =
                        [f EXCEPT !.arg_tcb = p, !.p_tcb = t,
                                  !.value = IF r.err = OS_ERR_NONE THEN value ELSE 0,
                                  !.err = r.err,
                                  !.changed = (r.tbl # TLS_Tbl),
                                  !.optSeen = IF t = NULL THEN "none" ELSE Opt[t]]]
    /\ critOwner' = NoCtx
    /\ pc' = [pc EXCEPT ![c] = "ret"]
    /\ UNCHANGED <<OS_CFG_ARG_CHK_EN, lockVars, destrVars, kernVars, tlsVars, tcbState, Opt,
                   segs, poolVars>>

\* ------------------------------------------------------- OS_TLS_LockCreate
\* The OS_TLS_LOCK objects reached from the head h by NextPtr, at most n of
\* them, in list order.
RECURSIVE Chain(_, _)
Chain(h, n) == IF h = NULL \/ n = 0 THEN <<>> ELSE <<h>> \o Chain(NextPtr[h], n - 1)

FreeList == Chain(OS_TLS_LockPoolListPtr, OS_TLS_LOCK_MAX + 1)

\* faulty variant: the head pointer is not moved
Mut_Pop_NoAdvance ==
    [p_tls_lock |-> OS_TLS_LockPoolListPtr, head |-> OS_TLS_LockPoolListPtr]

\* The first critical section of OS_TLS_LockCreate(): take the first object
\* of the list, if there is one.
LockCreate_Pop ==
    IF OS_TLS_LockPoolListPtr = NULL
    THEN [p_tls_lock |-> NULL, head |-> OS_TLS_LockPoolListPtr]
    ELSE [p_tls_lock |-> OS_TLS_LockPoolListPtr,
          head |-> NextPtr[OS_TLS_LockPoolListPtr]]

\* faulty variant: the object is put behind the first one
Mut_Push_Second(e) ==
    IF OS_TLS_LockPoolListPtr = NULL
    THEN [next |-> [NextPtr EXCEPT ![e] = NULL], head |-> e]
    ELSE [next |-> [NextPtr EXCEPT ![e] = NextPtr[OS_TLS_LockPoolListPtr],
                                   ![OS_TLS_LockPoolListPtr] = e],
          head |-> OS_TLS_LockPoolListPtr]

\* faulty variant: the object's NextPtr is not set
Mut_Push_NoLink(e) == [next |-> NextPtr, head |-> e]

\* The critical section of OS_TLS_LockDel(), and the second one of
\* OS_TLS_LockCreate(): put the object e in front of the list.
Lock_Push(e) ==
    [next |-> [NextPtr EXCEPT ![e] = OS_TLS_LockPoolListPtr], head |-> e]

\* history: a step of c that changes the list is seen by the calls of
\* OS_TLS_LockCreate() the other contexts have in progress
Disturb(c, changes) ==
    [d \in Ctx |-> IF d # c /\ changes THEN [frame[d] EXCEPT !.alone = FALSE] ELSE frame[d]]

\* call, the test of p_lock and CPU_CRITICAL_ENTER()
OS_TLS_LockCreate_Enter(c, p_lock, via) ==
    /\ pc[c] = "idle"
    /\ CanEnter(c)
    /\ IF p_lock = NULL
       THEN /\ frame' = [frame EXCEPT ![c] =
                           [BlankFrame EXCEPT !.op = "LockCreate", !.err = "p_lock_null"]]
            /\ pc' = [pc EXCEPT ![c] = "ret"]
            /\ UNCHANGED <<critOwner, nCreate>>
       ELSE /\ nCreate' = IF osInitDone THEN Min(nCreate + 1, OS_TLS_LOCK_MAX + 1) ELSE nCreate
            /\ frame' = [frame EXCEPT ![c] =
                           [BlankFrame EXCEPT
                              !.op = "LockCreate",
                              !.via = via,
                              !.k = IF osInitDone THEN nCreate' ELSE 0,
                              !.pre = (Cardinality(handles) = OS_TLS_LOCK_MAX)]]
            /\ pc' = [pc EXCEPT ![c] = "LockCreate_crit"]
            /\ critOwner' = c
    /\ UNCHANGED <<OS_CFG_ARG_CHK_EN, lockVars, destrVars, kernVars, tlsVars, tcbVars,
                   NextPtr, Mutex,
                   OS_TLS_LockPoolListPtr, handles, quiet, lifo, holders>>

\* faulty variant: no CPU_CRITICAL_EXIT() before OSMutexCreate()
Mut_LockCreate_Body_KeepCrit(c) ==
    /\ pc[c] = "LockCreate_crit"
    /\ Runnable(c)
    /\ LET r == LockCreate_Pop IN
         /\ OS_TLS_LockPoolListPtr' = r.head
         /\ lifo' = IF r.p_tls_lock = NULL \/ lifo = <<>> THEN lifo ELSE Tail(lifo)
         /\ frame' = [frame EXCEPT ![c].p_tls_lock = r.p_tls_lock,
                                   ![c].ret = NULL,
                                   ![c].obj = r.p_tls_lock,
                                   ![c].list0 = FreeList]
         /\ pc' = [pc EXCEPT ![c] = IF r.p_tls_lock = NULL THEN "ret" ELSE "LockCreate_mutex"]
         /\ critOwner' = IF r.p_tls_lock = NULL THEN NoCtx ELSE c
    /\ UNCHANGED <<OS_CFG_ARG_CHK_EN, lockVars, destrVars, kernVars, tlsVars, tcbVars,
                   NextPtr, Mutex, handles, nCreate, quiet, holders>>

\* the first critical section and CPU_CRITICAL_EXIT(); with the list empty,
\* *p_lock = NULL and the return statement
OS_TLS_LockCreate_Body(c) ==
    /\ pc[c] = "LockCreate_crit"
    /\ Runnable(c)
    /\ LET r == LockCreate_Pop IN
         /\ OS_TLS_LockPoolListPtr' = r.head
         /\ lifo' = IF r.p_tls_lock = NULL \/ lifo = <<>> THEN lifo ELSE Tail(lifo)
         /\ frame' = [Disturb(c, r.p_tls_lock # NULL) EXCEPT
                         ![c].p_tls_lock = r.p_tls_lock,
                         ![c].ret = NULL,
                         ![c].obj = r.p_tls_lock,
                         ![c].top = IF lifo = <<>> THEN NULL ELSE Head(lifo),
                         ![c].list0 = FreeList,
                         ![c].alone = TRUE]
         /\ pc' = [pc EXCEPT ![c] = IF r.p_tls_lock = NULL THEN "ret" ELSE "LockCreate_mutex"]
    /\ critOwner' = NoCtx
    /\ UNCHANGED <<OS_CFG_ARG_CHK_EN, lockVars, destrVars, kernVars, tlsVars, tcbVars,
                   NextPtr, Mutex,
                   handles, nCreate, quiet, holders>>

\* __iar_system_Mtxinit() and __iar_file_Mtxinit(): the two entry points of
\* the DLIB that call OS_TLS_LockCreate() with the address of a lock variable
iar_system_Mtxinit(c, p_lock) == OS_TLS_LockCreate_Enter(c, p_lock, "system")
iar_file_Mtxinit(c, p_lock) == OS_TLS_LockCreate_Enter(c, p_lock, "file")

\* OSMutexCreate() and what follows it when it succeeds: the object is
\* returned in *p_lock.  When it fails the object has to go back.
OS_TLS_LockCreate_Mutex(c, err) ==
    /\ pc[c] = "LockCreate_mutex"
    /\ CanEnter(c)
    /\ err \in {OS_ERR_NONE, OS_ERR_MUTEX}
    /\ IF err = OS_ERR_NONE
       THEN /\ Mutex' = [Mutex EXCEPT ![frame[c].p_tls_lock] = "CREATED"]
            /\ MutexOwner' = [MutexOwner EXCEPT ![frame[c].p_tls_lock] = NULL]
            /\ handles' = handles \cup {frame[c].p_tls_lock}
            /\ holders' = [holders EXCEPT ![frame[c].p_tls_lock] = Append(@, frame[c].via)]
            /\ frame' = [frame EXCEPT ![c].ret = frame[c].p_tls_lock,
                                      ![c].p_tls_lock = NULL, ![c].err = err]
            /\ pc' = [pc EXCEPT ![c] = "ret"]
            /\ quiet' = quiet
       ELSE /\ frame' = [frame EXCEPT ![c].err = err]
            /\ pc' = [pc EXCEPT ![c] = "LockCreate_undo"]
            /\ quiet' = FALSE
            /\ UNCHANGED <<Mutex, MutexOwner, handles, holders>>
    /\ UNCHANGED <<OS_CFG_ARG_CHK_EN, holding, stale, destrVars, kernVars, critOwner, tlsVars,
                   tcbVars, NextPtr,
                   OS_TLS_LockPoolListPtr, nCreate, lifo>>

\* CPU_CRITICAL_ENTER() of the second critical section
OS_TLS_LockCreate_UndoEnter(c) ==
    /\ pc[c] = "LockCreate_undo"
    /\ CanEnter(c)
    /\ critOwner' = c
    /\ pc' = [pc EXCEPT ![c] = "LockCreate_undo_crit"]
    /\ UNCHANGED <<OS_CFG_ARG_CHK_EN, lockVars, destrVars, kernVars, tlsVars, tcbVars,
                   poolVars, frame>>

\* faulty variant: the object is not put back
Mut_Undo_NoPush(c) ==
    /\ pc[c] = "LockCreate_undo_crit"
    /\ Runnable(c)
    /\ frame' = [frame EXCEPT ![c].p_tls_lock = NULL, ![c].ret = NULL]
    /\ critOwner' = NoCtx
    /\ pc' = [pc EXCEPT ![c] = "ret"]
    /\ UNCHANGED <<OS_CFG_ARG_CHK_EN, lockVars, destrVars, kernVars, tlsVars, tcbVars, poolVars>>

\* the second critical section, CPU_CRITICAL_EXIT(), *p_lock = NULL, return
OS_TLS_LockCreate_Undo(c) ==
    /\ pc[c] = "LockCreate_undo_crit"
    /\ Runnable(c)
    /\ LET r == Lock_Push(frame[c].p_tls_lock) IN
         /\ NextPtr' = r.next
         /\ OS_TLS_LockPoolListPtr' = r.head
    /\ lifo' = <<frame[c].p_tls_lock>> \o lifo
    /\ frame' = [Disturb(c, TRUE) EXCEPT ![c].p_tls_lock = NULL, ![c].ret = NULL]
    /\ critOwner' = NoCtx
    /\ pc' = [pc EXCEPT ![c] = "ret"]
    /\ UNCHANGED <<OS_CFG_ARG_CHK_EN, lockVars, destrVars, kernVars, tlsVars, tcbVars, Mutex,
                   handles, nCreate,
                   quiet, holders>>

\* ---------------------------------------------------------- OS_TLS_LockDel
\* history: the tasks between their call of OS_TLS_LockAcquire() on the lock
\* e and the return of their OS_TLS_LockRelease() of it
Users(e) ==
    {t \in Tasks : holding[t] = e \/ (pc[t] = "Acquire_pend" /\ frame[t].obj = e)}

\* Call and the test of p_lock.  The DLIB deletes a lock it has created and
\* not yet deleted, or a lock variable that holds NULL.
OS_TLS_LockDel_Call(c, p_lock) ==
    /\ pc[c] = "idle"
    /\ CanEnter(c)
    /\ p_lock \in {NULL} \cup handles
    /\ IF p_lock = NULL
       THEN /\ frame' = [frame EXCEPT ![c] = [BlankFrame EXCEPT !.op = "LockDel"]]
            /\ pc' = [pc EXCEPT ![c] = "ret"]
            /\ UNCHANGED <<handles, quiet, holders, stale>>
       ELSE /\ frame' = [frame EXCEPT ![c] =
                           [BlankFrame EXCEPT !.op = "LockDel", !.p_tls_lock = p_lock,
                                              !.obj = p_lock]]
            /\ pc' = [pc EXCEPT ![c] = "LockDel_mutex"]
            /\ handles' = handles \ {p_lock}
            /\ holders' = [holders EXCEPT ![p_lock] = IF @ = <<>> THEN @ ELSE Tail(@)]
            /\ stale' = stale \cup Users(p_lock)
            /\ quiet' = FALSE
    /\ UNCHANGED <<OS_CFG_ARG_CHK_EN, MutexOwner, holding, destrVars, kernVars, critOwner,
                   tlsVars, tcbVars, NextPtr,
                   Mutex, OS_TLS_LockPoolListPtr, nCreate, lifo>>

\* faulty variant: return when OSMutexDel() reports an error
Mut_LockDel_Mutex_ErrReturn(c, err) ==
    /\ pc[c] = "LockDel_mutex"
    /\ CanEnter(c)
    /\ err \in {OS_ERR_NONE, OS_ERR_MUTEX}
    /\ Mutex' = IF err = OS_ERR_NONE
                THEN [Mutex EXCEPT ![frame[c].p_tls_lock] = "NONE"]
                ELSE Mutex
    /\ MutexOwner' = IF err = OS_ERR_NONE
                     THEN [MutexOwner EXCEPT ![frame[c].p_tls_lock] = NULL]
                     ELSE MutexOwner
    /\ frame' = [frame EXCEPT ![c].err = err,
                              ![c].p_tls_lock = IF err = OS_ERR_NONE THEN @ ELSE NULL]
    /\ pc' = [pc EXCEPT ![c] = IF err = OS_ERR_NONE THEN "LockDel_enter" ELSE "ret"]
    /\ UNCHANGED <<OS_CFG_ARG_CHK_EN, holding, stale, destrVars, kernVars, critOwner, tlsVars,
                   tcbVars, NextPtr,
                   OS_TLS_LockPoolListPtr, handles, nCreate, quiet, lifo, holders>>

\* OSMutexDel(), its result ignored: the kernel deletes the mutex or refuses
OS_TLS_LockDel_Mutex(c, err) ==
    /\ pc[c] = "LockDel_mutex"
    /\ CanEnter(c)
    /\ err \in {OS_ERR_NONE, OS_ERR_MUTEX}
    /\ Mutex' = IF err = OS_ERR_NONE
                THEN [Mutex EXCEPT ![frame[c].p_tls_lock] = "NONE"]
                ELSE Mutex
    /\ MutexOwner' = IF err = OS_ERR_NONE
                     THEN [MutexOwner EXCEPT ![frame[c].p_tls_lock] = NULL]
                     ELSE MutexOwner
    /\ frame' = [frame EXCEPT ![c].err = err]
    /\ pc' = [pc EXCEPT ![c] = "LockDel_enter"]
    /\ UNCHANGED <<OS_CFG_ARG_CHK_EN, holding, stale, destrVars, kernVars, critOwner, tlsVars,
                   tcbVars, NextPtr,
                   OS_TLS_LockPoolListPtr, handles, nCreate, quiet, lifo, holders>>

\* CPU_CRITICAL_ENTER()
OS_TLS_LockDel_Enter(c) ==
    /\ pc[c] = "LockDel_enter"
    /\ CanEnter(c)
    /\ critOwner' = c
    /\ pc' = [pc EXCEPT ![c] = "LockDel_crit"]
    /\ UNCHANGED <<OS_CFG_ARG_CHK_EN, lockVars, destrVars, kernVars, tlsVars, tcbVars,
                   poolVars, frame>>

\* the critical section, CPU_CRITICAL_EXIT() and the return
OS_TLS_LockDel_Body(c) ==
    /\ pc[c] = "LockDel_crit"
    /\ Runnable(c)
    /\ LET r == Lock_Push(frame[c].p_tls_lock) IN
         /\ NextPtr' = r.next
         /\ OS_TLS_LockPoolListPtr' = r.head
    /\ lifo' = <<frame[c].p_tls_lock>> \o lifo
    /\ frame' = [Disturb(c, TRUE) EXCEPT ![c].p_tls_lock = NULL,
                                         ![c].top = OS_TLS_LockPoolListPtr]
    /\ critOwner' = NoCtx
    /\ pc' = [pc EXCEPT ![c] = "ret"]
    /\ UNCHANGED <<OS_CFG_ARG_CHK_EN, lockVars, destrVars, kernVars, tlsVars, tcbVars, Mutex,
                   handles, nCreate,
                   quiet, holders>>

\* ------------------------------------- OS_TLS_LockAcquire/OS_TLS_LockRelease
\* faulty variant: the state of the kernel is not tested
Mut_LockGuard_NullOnly(p_lock) == p_lock = NULL

\* faulty variant: the function always returns at once
Mut_LockGuard_Always(p_lock) == p_lock = p_lock

\* The test both functions start with: return when the handle is NULL or the
\* kernel is not running.
LockGuard(p_lock) == p_lock = NULL \/ OSRunning # OS_STATE_OS_RUNNING

\* Call and the test.  A caller passes NULL or a lock that is held, and a
\* task acquires one lock at a time.
OS_TLS_LockAcquire_Call(c, p_lock) ==
    /\ pc[c] = "idle"
    /\ CanEnter(c)
    /\ p_lock \in {NULL} \cup handles
    /\ c \in Tasks => holding[c] = NULL
    /\ frame' = [frame EXCEPT ![c] =
                    [BlankFrame EXCEPT !.op = "LockAcquire", !.obj = p_lock]]
    /\ IF LockGuard(p_lock)
       THEN /\ pc' = [pc EXCEPT ![c] = "ret"]
            /\ holding' = IF c \in Tasks /\ p_lock # NULL
                          THEN [holding EXCEPT ![c] = p_lock]
                          ELSE holding
       ELSE /\ pc' = [pc EXCEPT ![c] = "Acquire_pend"]
            /\ holding' = holding
    /\ UNCHANGED <<OS_CFG_ARG_CHK_EN, MutexOwner, stale, destrVars, kernVars, critOwner,
                   tlsVars, tcbVars, poolVars>>

\* OSMutexPend(&p_tls_lock->Mutex, 0, OS_OPT_PEND_BLOCKING), err ignored: the
\* kernel gives the mutex to the caller when it is free or the caller's,
\* keeps the caller waiting while another task owns it, and returns an error
\* for a mutex that has been deleted, also to the tasks that were waiting.
OS_TLS_LockAcquire_Pend(c) ==
    /\ pc[c] = "Acquire_pend"
    /\ CanEnter(c)
    /\ c \in Tasks
    /\ LET e == frame[c].obj IN
         /\ IF Mutex[e] = "CREATED" /\ c \notin stale
            THEN /\ MutexOwner[e] \in {NULL, c}
                 /\ MutexOwner' = [MutexOwner EXCEPT ![e] = c]
                 /\ frame' = [frame EXCEPT ![c].err = OS_ERR_NONE]
            ELSE /\ MutexOwner' = MutexOwner
                 /\ frame' = [frame EXCEPT ![c].err = OS_ERR_MUTEX]
         /\ holding' = [holding EXCEPT ![c] = e]
    /\ pc' = [pc EXCEPT ![c] = "ret"]
    /\ UNCHANGED <<OS_CFG_ARG_CHK_EN, stale, destrVars, kernVars, critOwner,
                   tlsVars, tcbVars, poolVars>>

\* Call and the test.  A caller releases the lock it has acquired, or passes
\* NULL or another lock that is held.
OS_TLS_LockRelease_Call(c, p_lock) ==
    /\ pc[c] = "idle"
    /\ CanEnter(c)
    /\ p_lock \in {NULL} \cup handles \cup (IF c \in Tasks THEN {holding[c]} ELSE {})
    /\ frame' = [frame EXCEPT ![c] =
                    [BlankFrame EXCEPT !.op = "LockRelease", !.obj = p_lock]]
    /\ IF LockGuard(p_lock)
       THEN /\ pc' = [pc EXCEPT ![c] = "ret"]
            /\ holding' = IF c \in Tasks /\ p_lock # NULL /\ holding[c] = p_lock
                          THEN [holding EXCEPT ![c] = NULL]
                          ELSE holding
            /\ stale' = IF c \in Tasks /\ p_lock # NULL /\ holding[c] = p_lock
                        THEN stale \ {c}
                        ELSE stale
       ELSE /\ pc' = [pc EXCEPT ![c] = "Release_post"]
            /\ UNCHANGED <<holding, stale>>
    /\ UNCHANGED <<OS_CFG_ARG_CHK_EN, MutexOwner, destrVars, kernVars, critOwner,
                   tlsVars, tcbVars, poolVars>>

\* faulty variant: OSMutexPost() is not called
Mut_LockRelease_Post_Skip(c, w) ==
    /\ pc[c] = "Release_post"
    /\ CanEnter(c)
    /\ c \in Tasks
    /\ w = NULL
    /\ LET e == frame[c].obj IN
         /\ holding' = IF holding[c] = e THEN [holding EXCEPT ![c] = NULL] ELSE holding
         /\ stale' = IF holding[c] = e THEN stale \ {c} ELSE stale
    /\ pc' = [pc EXCEPT ![c] = "ret"]
    /\ UNCHANGED <<OS_CFG_ARG_CHK_EN, MutexOwner, frame, destrVars, kernVars, critOwner,
                   tlsVars, tcbVars, poolVars>>

\* the tasks on the pend list of the mutex of e
Waiters(e) ==
    {t \in Tasks \ stale : pc[t] = "Acquire_pend" /\ frame[t].obj = e /\ MutexOwner[e] # t}

\* OSMutexPost(&p_tls_lock->Mutex, OS_OPT_POST_NONE), err ignored: when the
\* caller owns the mutex the kernel gives it to a task w of the pend list, or
\* frees it (w = NULL) when no task waits; it reports an error otherwise.
OS_TLS_LockRelease_Post(c, w) ==
    /\ pc[c] = "Release_post"
    /\ CanEnter(c)
    /\ c \in Tasks
    /\ LET e == frame[c].obj IN
         /\ IF Waiters(e) = {} THEN w = NULL ELSE w \in Waiters(e)
         /\ MutexOwner' = IF Mutex[e] = "CREATED" /\ MutexOwner[e] = c
                          THEN [MutexOwner EXCEPT ![e] = w]
                          ELSE MutexOwner
         /\ frame' = [frame EXCEPT ![c].err =
                         IF Mutex[e] = "CREATED" /\ MutexOwner[e] = c
                         THEN OS_ERR_NONE ELSE OS_ERR_MUTEX]
         /\ holding' = IF holding[c] = e THEN [holding EXCEPT ![c] = NULL] ELSE holding
         /\ stale' = IF holding[c] = e THEN stale \ {c} ELSE stale
    /\ pc' = [pc EXCEPT ![c] = "ret"]
    /\ UNCHANGED <<OS_CFG_ARG_CHK_EN, destrVars, kernVars, critOwner,
                   tlsVars, tcbVars, poolVars>>

\* ------------------------------------------------------ OS_TLS_SetDestruct
\* The error OS_TLS_SetDestruct(id, p_destruct) returns.
SetDestruct_Err(id, p_destruct) == OS_ERR_NONE

\* The whole function is one assignment to *p_err; nothing is stored.
OS_TLS_SetDestruct(c, id, p_destruct) ==
    /\ pc[c] = "idle"
    /\ CanEnter(c)
    /\ LET err == SetDestruct_Err(id, p_destruct) IN
         /\ frame' = [frame EXCEPT ![c] =
                         [BlankFrame EXCEPT !.op = "SetDestruct", !.id = id,
                                            !.err = err,
                                            !.pre = (id >= OS_TLS_NextAvailID)]]
         /\ registered' = IF err = OS_ERR_NONE /\ p_destruct # NULL
                                 /\ id < OS_TLS_NextAvailID
                          THEN registered \cup {id}
                          ELSE registered
    /\ pc' = [pc EXCEPT ![c] = "ret"]
    /\ UNCHANGED <<OS_CFG_ARG_CHK_EN, lockVars, missed, kernVars, critOwner,
                   tlsVars, tcbVars, poolVars>>

\* --------------------------------------------- __iar_dlib_perthread_access
\* (uintptr_t)p_tls: the address at which the segment p_tls starts
SegAddr(p_tls) == p_tls * SegSize

\* the segment an address lies in; none for the addresses below the first
SegOf(addr) == addr \div SegSize

\* faulty variant: the static segment is used whatever the kernel's state
Mut_perthread_access_Static(symbp) == SegAddr(MainSeg) + symbp

\* The address the function returns for the symbol at offset symbp.
perthread_access(symbp) == SegAddr(AccessBase) + symbp

\* __iar_dlib_perthread_access(symbp), called by the library in the context c
iar_dlib_perthread_access(c, symbp) ==
    /\ pc[c] = "idle"
    /\ CanEnter(c)
    /\ symbp \in Offsets
    /\ frame' = [frame EXCEPT ![c] =
                    [BlankFrame EXCEPT !.op = "access", !.value = symbp,
                                       !.base = AccessBase,
                                       !.ret = perthread_access(symbp)]]
    /\ pc' = [pc EXCEPT ![c] = "ret"]
    /\ UNCHANGED <<OS_CFG_ARG_CHK_EN, lockVars, destrVars, kernVars, critOwner, tlsVars,
                   tcbVars, poolVars>>

\* ------------------------------------------------------------------ return
Return(c) ==
    /\ pc[c] = "ret"
    /\ Runnable(c)
    /\ pc' = [pc EXCEPT ![c] = "idle"]
    /\ frame' = [frame EXCEPT ![c] = BlankFrame]
    /\ UNCHANGED <<OS_CFG_ARG_CHK_EN, lockVars, destrVars, kernVars, critOwner, tlsVars,
                   tcbVars, poolVars>>

\* the kernel starting, switching, creating and deleting tasks
KernelNext ==
    \/ OS_TLS_Init
    \/ OS_TLS_Init_Body
    \/ OSStart
    \/ OS_TLS_TaskSw
    \/ \E c \in Ctx, t \in Tasks, opt \in {OS_OPT_NONE, OS_OPT_TASK_NO_TLS} :
          OSTaskCreate(c, t, opt)
    \/ \E c \in Ctx, t \in Tasks : OSTaskDel(c, t)
    \/ \E c \in Ctx : Return(c)

IdNext ==
    \/ \E c \in Ctx : OS_TLS_GetID_Enter(c)
    \/ \E c \in Ctx : OS_TLS_GetID_Body(c)

ValueNext ==
    \/ \E c \in Ctx, p \in {NULL} \cup Tasks, id \in Ids : OS_TLS_GetValue_Call(c, p, id)
    \/ \E c \in Ctx : OS_TLS_GetValue_Enter(c)
    \/ \E c \in Ctx, p \in {NULL} \cup Tasks : OS_TLS_GetValue_Body(c, p)
    \/ \E c \in Ctx, p \in {NULL} \cup Tasks, id \in Ids, v \in AppValues :
          OS_TLS_SetValue_Call(c, p, id, v)
    \/ \E c \in Ctx : OS_TLS_SetValue_Enter(c)
    \/ \E c \in Ctx, p \in {NULL} \cup Tasks, v \in AppValues : OS_TLS_SetValue_Body(c, p, v)

PoolNext ==
    \/ \E c \in Ctx, p_lock \in {NULL, 1} : iar_system_Mtxinit(c, p_lock)
    \/ \E c \in Ctx, p_lock \in {NULL, 1} : iar_file_Mtxinit(c, p_lock)
    \/ \E c \in Ctx : OS_TLS_LockCreate_Body(c)
    \/ \E c \in Ctx, err \in {OS_ERR_NONE, OS_ERR_MUTEX} : OS_TLS_LockCreate_Mutex(c, err)
    \/ \E c \in Ctx : OS_TLS_LockCreate_UndoEnter(c)
    \/ \E c \in Ctx : OS_TLS_LockCreate_Undo(c)
    \/ \E c \in Ctx, p_lock \in {NULL} \cup Pool : OS_TLS_LockDel_Call(c, p_lock)
    \/ \E c \in Ctx, err \in {OS_ERR_NONE, OS_ERR_MUTEX} : OS_TLS_LockDel_Mutex(c, err)
    \/ \E c \in Ctx : OS_TLS_LockDel_Enter(c)
    \/ \E c \in Ctx : OS_TLS_LockDel_Body(c)

\* the kernel and the pool as the locks see them: the TLS option of a task
\* and the entry point that creates a lock make no difference to a lock
LockKernelNext ==
    \/ OS_TLS_Init
    \/ OS_TLS_Init_Body
    \/ OSStart
    \/ OS_TLS_TaskSw
    \/ \E c \in Ctx, t \in Tasks : OSTaskCreate(c, t, OS_OPT_NONE)
    \/ \E c \in Ctx, t \in Tasks : OSTaskDel(c, t)
    \/ \E c \in Ctx : Return(c)

LockPoolNext ==
    \/ \E c \in Ctx, p_lock \in {NULL, 1} : iar_system_Mtxinit(c, p_lock)
    \/ \E c \in Ctx : OS_TLS_LockCreate_Body(c)
    \/ \E c \in Ctx, err \in {OS_ERR_NONE, OS_ERR_MUTEX} : OS_TLS_LockCreate_Mutex(c, err)
    \/ \E c \in Ctx : OS_TLS_LockCreate_UndoEnter(c)
    \/ \E c \in Ctx : OS_TLS_LockCreate_Undo(c)
    \/ \E c \in Ctx, p_lock \in {NULL} \cup Pool : OS_TLS_LockDel_Call(c, p_lock)
    \/ \E c \in Ctx, err \in {OS_ERR_NONE, OS_ERR_MUTEX} : OS_TLS_LockDel_Mutex(c, err)
    \/ \E c \in Ctx : OS_TLS_LockDel_Enter(c)
    \/ \E c \in Ctx : OS_TLS_LockDel_Body(c)

LockNext ==
    \/ \E c \in Ctx, p_lock \in {NULL} \cup Pool : OS_TLS_LockAcquire_Call(c, p_lock)
    \/ \E c \in Ctx : OS_TLS_LockAcquire_Pend(c)
    \/ \E c \in Ctx, p_lock \in {NULL} \cup Pool : OS_TLS_LockRelease_Call(c, p_lock)
    \/ \E c \in Ctx, w \in {NULL} \cup Tasks : OS_TLS_LockRelease_Post(c, w)

DestructNext ==
    \E c \in Ctx, id \in Ids, p_destruct \in {NULL, 1} : OS_TLS_SetDestruct(c, id, p_destruct)

AccessNext ==
    \E c \in Ctx, symbp \in Offsets : iar_dlib_perthread_access(c, symbp)

\* OS_TLS_SetValue() alone
SetNext ==
    \/ \E c \in Ctx, p \in {NULL} \cup Tasks, id \in Ids, v \in AppValues :
          OS_TLS_SetValue_Call(c, p, id, v)
    \/ \E c \in Ctx : OS_TLS_SetValue_Enter(c)
    \/ \E c \in Ctx, p \in {NULL} \cup Tasks, v \in AppValues : OS_TLS_SetValue_Body(c, p, v)

Next == KernelNext \/ IdNext \/ ValueNext \/ PoolNext \/ LockNext \/ DestructNext
           \/ AccessNext

\* the whole file
Spec == Init /\ [][Next]_vars
\* the id allocator alone: no other service writes its variables
SpecID == Init /\ [][KernelNext \/ IdNext]_vars
\* the id allocator and the TLS tables
SpecValue == Init /\ [][KernelNext \/ IdNext \/ ValueNext]_vars
\* the lock pool
SpecPool == Init /\ [][KernelNext \/ PoolNext]_vars
\* the kernel while no task is deleted: the start-up code creates the tasks
LiveKernelNext ==
    \/ OS_TLS_Init
    \/ OS_TLS_Init_Body
    \/ OSStart
    \/ OS_TLS_TaskSw
    \/ \E t \in Tasks : OSTaskCreate(Main, t, OS_OPT_NONE)
    \/ \E c \in Ctx : Return(c)

\* the pool as the library uses it: the locks are created by the start-up
\* code, OSMutexCreate() succeeds, and tasks delete locks
LivePoolNext ==
    \/ iar_system_Mtxinit(Main, 1)
    \/ OS_TLS_LockCreate_Body(Main)
    \/ OS_TLS_LockCreate_Mutex(Main, OS_ERR_NONE)
    \/ \E c \in Tasks, p_lock \in Pool : OS_TLS_LockDel_Call(c, p_lock)
    \/ \E c \in Tasks : OS_TLS_LockDel_Mutex(c, OS_ERR_NONE)
    \/ \E c \in Tasks : OS_TLS_LockDel_Enter(c)
    \/ \E c \in Tasks : OS_TLS_LockDel_Body(c)

\* the tasks acquire and release the locks
LiveLockNext ==
    \/ \E c \in Tasks, p_lock \in Pool : OS_TLS_LockAcquire_Call(c, p_lock)
    \/ \E c \in Tasks : OS_TLS_LockAcquire_Pend(c)
    \/ \E c \in Tasks, p_lock \in Pool : OS_TLS_LockRelease_Call(c, p_lock)
    \/ \E c \in Tasks, w \in {NULL} \cup Tasks : OS_TLS_LockRelease_Post(c, w)

\* the scheduler gives the CPU to the task t
SwitchTo(t) == OS_TLS_TaskSw /\ OSTCBCurPtr' = t

\* the task t, inside a call, takes the next step of the call
Continue(t) ==
    \/ Return(t)
    \/ OS_TLS_LockAcquire_Pend(t)
    \/ \E w \in {NULL} \cup Tasks : OS_TLS_LockRelease_Post(t, w)
    \/ OS_TLS_LockDel_Mutex(t, OS_ERR_NONE)
    \/ OS_TLS_LockDel_Enter(t)
    \/ OS_TLS_LockDel_Body(t)

\* the task t calls OS_TLS_LockRelease() on the lock it has acquired
ReleaseHeld(t) == holding[t] # NULL /\ OS_TLS_LockRelease_Call(t, holding[t])

\* Fair scheduling: a task that can run again and again gets the CPU, a task
\* that has the CPU again and again goes on with its call, and a task that
\* has acquired a lock releases it.
LockFairness ==
    \A t \in Tasks : /\ SF_vars(SwitchTo(t))
                      /\ SF_vars(Continue(t))
                      /\ SF_vars(ReleaseHeld(t))

\* the lock pool and the locks
SpecLock == Init /\ [][LockKernelNext \/ LockPoolNext \/ LockNext]_vars
\* the locks under fair scheduling, no task being deleted
SpecLockLive ==
    Init /\ [][LiveKernelNext \/ LivePoolNext \/ LiveLockNext]_vars /\ LockFairness
\* the id allocator and the destructors
SpecDestruct == Init /\ [][KernelNext \/ IdNext \/ DestructNext]_vars
\* the task hooks and the resolver of the library
SpecHook == Init /\ [][KernelNext \/ IdNext \/ AccessNext]_vars
\* the same with the TLS registers written
SpecHookSet == Init /\ [][KernelNext \/ IdNext \/ SetNext \/ AccessNext]_vars

\* ================================================================== claims
Ret(c, op) == pc[c] = "ret" /\ frame[c].op = op
RetValue(c) == Ret(c, "GetValue") \/ Ret(c, "SetValue")

\* C1: the ids OS_TLS_GetID() has returned without error, in the order of
\* the calls (the call OS_TLS_Init() makes included), are 0, 1, ..., N-1 with
\* N <= OS_CFG_TLS_TBL_SIZE: none is issued twice, none is skipped; and a
\* call that returns without error returns the id it added last.
C1_IdsAreInitialSegment ==
    /\ Len(issued) <= OS_CFG_TLS_TBL_SIZE
    /\ \A i \in 1..Len(issued) : issued[i] = i - 1
    /\ \A c \in Ctx : (Ret(c, "GetID") /\ frame[c].err = OS_ERR_NONE) =>
                        frame[c].ret = issued[Len(issued)]

\* C1 witness: a task, after the start of the kernel, has been given the last id
C1_Witness ==
    \E c \in Tasks : /\ Ret(c, "GetID")
                     /\ frame[c].err = OS_ERR_NONE
                     /\ frame[c].ret = OS_CFG_TLS_TBL_SIZE - 1
                     /\ Len(issued) = OS_CFG_TLS_TBL_SIZE

\* C2: a call of OS_TLS_GetID() made when OS_CFG_TLS_TBL_SIZE ids have been
\* issued returns OS_ERR_TLS_NO_MORE_AVAIL and the id OS_CFG_TLS_TBL_SIZE;
\* only such a call returns that error, and the ids issued stay issued.
C2_ExhaustedForEver ==
    \A c \in Ctx : Ret(c, "GetID") =>
        /\ frame[c].pre => /\ frame[c].err = OS_ERR_TLS_NO_MORE_AVAIL
                           /\ frame[c].ret = OS_CFG_TLS_TBL_SIZE
        /\ frame[c].err = OS_ERR_TLS_NO_MORE_AVAIL => frame[c].pre
        /\ frame[c].pre => Len(issued) = OS_CFG_TLS_TBL_SIZE

\* C2 witness: a second call after exhaustion is refused as well
C2_Witness ==
    \E c \in Ctx : /\ Ret(c, "GetID")
                   /\ frame[c].pre
                   /\ frame[c].k = OS_CFG_TLS_TBL_SIZE + 1
                   /\ frame[c].err = OS_ERR_TLS_NO_MORE_AVAIL

\* C3 as stated: the k-th call by a caller after OS_TLS_Init(), k <= C,
\* returns k-1 without error and the (C+1)-th returns the error.
C3_Original ==
    \A c \in Ctx : Ret(c, "GetID") =>
        /\ frame[c].k <= OS_CFG_TLS_TBL_SIZE =>
              frame[c].err = OS_ERR_NONE /\ frame[c].ret = frame[c].k - 1
        /\ frame[c].k > OS_CFG_TLS_TBL_SIZE =>
              frame[c].err = OS_ERR_TLS_NO_MORE_AVAIL

\* C3 amended: OS_TLS_Init() takes id 0 for the library (OS_TLS_LibID), so
\* the k-th call by a caller, k <= C-1, returns k without error, and the
\* C-th and every later one returns OS_ERR_TLS_NO_MORE_AVAIL and the id C.
C3_CallersGetOneToCMinusOne ==
    /\ osInitDone => OS_TLS_LibID = 0 /\ Len(issued) >= 1 /\ issued[1] = OS_TLS_LibID
    /\ \A c \in Ctx : Ret(c, "GetID") =>
        /\ frame[c].k <= OS_CFG_TLS_TBL_SIZE - 1 =>
              frame[c].err = OS_ERR_NONE /\ frame[c].ret = frame[c].k
        /\ frame[c].k >= OS_CFG_TLS_TBL_SIZE =>
              /\ frame[c].err = OS_ERR_TLS_NO_MORE_AVAIL
              /\ frame[c].ret = OS_CFG_TLS_TBL_SIZE

\* C3 witness: the C-th call by a caller is refused
C3_Witness ==
    \E c \in Ctx : /\ Ret(c, "GetID")
                   /\ frame[c].k = OS_CFG_TLS_TBL_SIZE
                   /\ frame[c].err = OS_ERR_TLS_NO_MORE_AVAIL

\* C4: OS_TLS_GetValue() on (task, id), when a Set on (task, id) has succeeded
\* since the task was created and the task has not been deleted since,
\* returns without error the value of the last such Set.
C4_GetReturnsLastSet ==
    \A c \in Ctx : (Ret(c, "GetValue") /\ frame[c].expect # NoVal) =>
        frame[c].err = OS_ERR_NONE /\ frame[c].ret = frame[c].expect

\* C4 witness: the value is read back while the other task's entry of the
\* same id holds another value set in between, and the library entry of the
\* task itself has been set too
C4_Witness ==
    \E c \in Ctx : /\ Ret(c, "GetValue")
                   /\ frame[c].expect = 2
                   /\ frame[c].ret = 2
                   /\ frame[c].id # OS_TLS_LibID
                   /\ \E t \in Tasks \ {frame[c].p_tcb} : lastSet[t][frame[c].id] = 1
                   /\ lastSet[frame[c].p_tcb][OS_TLS_LibID] = 1

\* C5 as stated: on a created task with TLS enabled on which no Set has
\* succeeded, OS_TLS_GetValue() of an assigned id returns 0 without error.
C5_Original ==
    \A c \in Ctx : (/\ Ret(c, "GetValue")
                    /\ frame[c].fresh
                    /\ frame[c].optSeen = OS_OPT_NONE
                    /\ frame[c].id < OS_TLS_NextAvailID) =>
        frame[c].err = OS_ERR_NONE /\ frame[c].ret = 0

\* C5 amended: ... returns without error 0 for every assigned id but
\* OS_TLS_LibID, and for OS_TLS_LibID the segment pointer the create hook
\* has stored there, which is not 0.
C5_FreshTaskReadsZeroButLibSlot ==
    \A c \in Ctx : (/\ Ret(c, "GetValue")
                    /\ frame[c].fresh
                    /\ frame[c].optSeen = OS_OPT_NONE
                    /\ frame[c].id < OS_TLS_NextAvailID) =>
        /\ frame[c].err = OS_ERR_NONE
        /\ frame[c].id # OS_TLS_LibID => frame[c].ret = 0
        /\ frame[c].id = OS_TLS_LibID =>
              frame[c].ret = perthread_allocate(frame[c].p_tcb) /\ frame[c].ret # 0

\* C5 witness: an assigned id other than the library's read on a fresh task
C5_Witness ==
    \E c \in Ctx : /\ Ret(c, "GetValue")
                   /\ frame[c].fresh
                   /\ frame[c].optSeen = OS_OPT_NONE
                   /\ frame[c].id < OS_TLS_NextAvailID
                   /\ frame[c].id # OS_TLS_LibID
                   /\ frame[c].ret = 0

C7_Original ==
    \A c \in Ctx : (RetValue(c) /\ frame[c].arg_tcb = NULL /\ OSTCBCurPtr = NULL) =>
        /\ frame[c].err = OS_ERR_OS_NOT_RUNNING
        /\ frame[c].ret = 0
        /\ ~frame[c].changed

\* C7 amended: ... unless the argument check refuses the id first (the id
\* is not assigned and OS_CFG_ARG_CHK_EN > 0): the error is then
\* OS_ERR_TLS_ID_INVALID.  In both cases Get returns 0 and Set changes no table.
C7_NotRunningAfterIdCheck ==
    \A c \in Ctx : (RetValue(c) /\ frame[c].arg_tcb = NULL /\ OSTCBCurPtr = NULL) =>
        /\ frame[c].err = IF OS_CFG_ARG_CHK_EN /\ frame[c].pre
                          THEN OS_ERR_TLS_ID_INVALID
                          ELSE OS_ERR_OS_NOT_RUNNING
        /\ frame[c].ret = 0
        /\ ~frame[c].changed

\* C7 witness: Get of an assigned id with p_tcb = NULL before OSStart(),
\* with a task already created
C7_Witness ==
    \E c \in Ctx : /\ Ret(c, "GetValue")
                   /\ frame[c].arg_tcb = NULL
                   /\ OSTCBCurPtr = NULL
                   /\ Created # {}
                   /\ ~frame[c].pre
                   /\ frame[c].err = OS_ERR_OS_NOT_RUNNING

\* C8: Get and Set that reach the task's option and find OS_OPT_TASK_NO_TLS
\* return OS_ERR_TLS_NOT_EN; Get returns 0 and Set changes no table.
C8_DisabledTaskRefused ==
    \A c \in Ctx : (RetValue(c) /\ frame[c].optSeen = OS_OPT_TASK_NO_TLS) =>
        /\ frame[c].err = OS_ERR_TLS_NOT_EN
        /\ frame[c].ret = 0
        /\ ~frame[c].changed
        /\ TLS_Tbl[frame[c].p_tcb] = [i \in Slots |-> 0]

\* C8 witness: Set of an assigned id on the current task, which has no TLS
C8_Witness ==
    \E c \in Tasks : /\ Ret(c, "SetValue")
                     /\ frame[c].arg_tcb = NULL
                     /\ frame[c].p_tcb = c
                     /\ frame[c].optSeen = OS_OPT_TASK_NO_TLS
                     /\ frame[c].id < OS_TLS_NextAvailID
                     /\ frame[c].err = OS_ERR_TLS_NOT_EN

\* the OS_TLS_LOCK objects some call holds outside the list
InProgress(c) == IF frame[c].p_tls_lock = NULL THEN {} ELSE {frame[c].p_tls_lock}
AllInProgress == UNION {InProgress(c) : c \in Ctx}

\* C9: after OS_TLS_Init(), as long as no lock has been deleted and no
\* OSMutexCreate() has failed, the k-th OS_TLS_LockCreate(), k <=
\* OS_TLS_LOCK_MAX, returns an object; and an OS_TLS_LockCreate() made while
\* OS_TLS_LOCK_MAX locks are held returns NULL.
C9_CapacityCreatesThenNull ==
    \A c \in Ctx : (Ret(c, "LockCreate") /\ frame[c].err # "p_lock_null") =>
        /\ (quiet /\ frame[c].k \in 1..OS_TLS_LOCK_MAX) => frame[c].ret \in Pool
        /\ frame[c].pre => frame[c].ret = NULL
        /\ Cardinality(handles) <= OS_TLS_LOCK_MAX

\* C9 witness: the create after the OS_TLS_LOCK_MAX-th returns NULL
C9_Witness ==
    \E c \in Tasks : /\ Ret(c, "LockCreate")
                     /\ quiet
                     /\ frame[c].pre
                     /\ frame[c].k = OS_TLS_LOCK_MAX + 1
                     /\ frame[c].ret = NULL
                     /\ handles = Pool

\* C10: after OS_TLS_Init(), the list from OS_TLS_LockPoolListPtr ends in
\* NULL and holds no object twice, and every object of the pool is in
\* exactly one place: on the list, held by a caller, or held by one call
\* of OS_TLS_LockCreate() or OS_TLS_LockDel() in progress; free + checked
\* out = OS_TLS_LOCK_MAX.
C10_PoolPartition ==
    osInitDone =>
      LET free == {FreeList[i] : i \in 1..Len(FreeList)} IN
        /\ Len(FreeList) <= OS_TLS_LOCK_MAX
        /\ Cardinality(free) = Len(FreeList)
        /\ free \cap handles = {}
        /\ free \cap AllInProgress = {}
        /\ handles \cap AllInProgress = {}
        /\ \A c, d \in Ctx : c # d => InProgress(c) \cap InProgress(d) = {}
        /\ free \cup handles \cup AllInProgress = Pool
        /\ Len(FreeList) + Cardinality(handles) + Cardinality(AllInProgress)
             = OS_TLS_LOCK_MAX

\* C10 witness: one object on the list after a delete has put it back, one
\* held by a caller and, with a third, one held by a create in progress
C10_Witness ==
    /\ osInitDone
    /\ ~quiet
    /\ OS_TLS_LockPoolListPtr # NULL
    /\ NextPtr[OS_TLS_LockPoolListPtr] = NULL
    /\ handles # {}
    /\ OS_TLS_LOCK_MAX > 2 => \E c \in Tasks : pc[c] = "LockCreate_mutex"
    /\ \E c \in Tasks : Ret(c, "LockDel") /\ frame[c].err = OS_ERR_MUTEX

FreeSet == {FreeList[i] : i \in 1..Len(FreeList)}

\* C11: the list from OS_TLS_LockPoolListPtr is a stack: it holds the free
\* objects with the one freed last first, an OS_TLS_LockCreate() that
\* returns an object returns the one freed last, an OS_TLS_LockCreate()
\* that finds the list not empty and whose OSMutexCreate() succeeds returns
\* an object, and an OS_TLS_LockDel() leaves its object first on the list;
\* so with every lock held, a delete followed by a create gives the deleted
\* object back.
C11_LifoReuse ==
    /\ FreeList = lifo
    /\ \A c \in Ctx : (Ret(c, "LockCreate") /\ frame[c].ret # NULL) =>
          /\ frame[c].ret = frame[c].top
          /\ frame[c].list0 # <<>> /\ frame[c].ret = Head(frame[c].list0)
    /\ \A c \in Ctx : (/\ Ret(c, "LockCreate")
                       /\ frame[c].list0 # <<>>
                       /\ frame[c].err # OS_ERR_MUTEX) =>
          frame[c].ret # NULL /\ frame[c].ret = Head(frame[c].list0)
    /\ \A c \in Ctx : (Ret(c, "LockDel") /\ frame[c].obj # NULL) =>
          lifo # <<>> /\ Head(lifo) = frame[c].obj

\* C11 witness: every lock was held, one was deleted, and the create that
\* follows returns it: the list held that object alone
C11_Witness ==
    \E c \in Tasks : /\ Ret(c, "LockCreate")
                     /\ frame[c].ret # NULL
                     /\ frame[c].list0 = <<frame[c].ret>>
                     /\ frame[c].k = OS_TLS_LOCK_MAX + 1
                     /\ frame[c].alone
                     /\ handles = Pool
                     /\ ~quiet

\* C12: no object is held through two handles: every object has at most one
\* holder, whichever of __iar_system_Mtxinit() and __iar_file_Mtxinit()
\* created the locks and however the calls interleave.
C12_HandlesDistinct ==
    \A e \in Pool : /\ Len(holders[e]) <= 1
                    /\ e \in handles <=> holders[e] # <<>>

\* C12 witness: a lock created through the file entry point is returned,
\* another context having changed the list meanwhile, while a lock created
\* through the system entry point is held
C12_Witness ==
    \E c \in Tasks : /\ Ret(c, "LockCreate")
                     /\ frame[c].ret # NULL
                     /\ frame[c].via = "file"
                     /\ ~frame[c].alone
                     /\ \E e \in Pool \ {frame[c].ret} : holders[e] = <<"system">>

LockDelNullStep(c) ==
    pc[c] = "idle" /\ pc'[c] = "ret" /\ frame'[c].op = "LockDel"

\* C14: OS_TLS_LockDel(NULL) is one step that changes nothing but the
\* caller's position; OS_TLS_LockDel() of a held lock returns with the
\* object first on the list, in front of what the list was, and held by
\* nobody, whatever OSMutexDel() has reported.
C14_DeleteAlwaysPutsBack ==
    /\ [](\A c \in Ctx : (Ret(c, "LockDel") /\ frame[c].obj # NULL) =>
            /\ frame[c].err \in {OS_ERR_NONE, OS_ERR_MUTEX}
            /\ OS_TLS_LockPoolListPtr = frame[c].obj
            /\ NextPtr[frame[c].obj] = frame[c].top
            /\ frame[c].obj \in FreeSet
            /\ frame[c].obj \notin handles)
    /\ [][\A c \in Ctx : LockDelNullStep(c) =>
            /\ frame'[c].obj = NULL
            /\ UNCHANGED <<kernVars, critOwner, tlsVars, tcbVars, poolVars>>]_vars

\* C14 witness: the object is back on a list that was not empty although
\* OSMutexDel() has reported an error
C14_Witness ==
    \E c \in Tasks : /\ Ret(c, "LockDel")
                     /\ frame[c].obj # NULL
                     /\ frame[c].err = OS_ERR_MUTEX
                     /\ frame[c].top # NULL
                     /\ OS_TLS_LockPoolListPtr = frame[c].obj

\* a call of OS_TLS_LockAcquire() or OS_TLS_LockRelease() by c with a NULL
\* handle or before the kernel runs
LockGuardStep(c) ==
    /\ pc[c] = "idle"
    /\ frame'[c].op \in {"LockAcquire", "LockRelease"}
    /\ frame'[c].obj = NULL \/ OSRunning # OS_STATE_OS_RUNNING

\* C15: OS_TLS_LockAcquire() and OS_TLS_LockRelease() called with a NULL
\* handle, or with any handle while OSRunning is not OS_STATE_OS_RUNNING,
\* return in the same step: the caller never waits, and no mutex, no list
\* and nothing else of the module or the kernel changes.
C15_GuardReturnsAtOnce ==
    [][\A c \in Ctx : LockGuardStep(c) =>
          /\ pc'[c] = "ret"
          /\ UNCHANGED <<MutexOwner, kernVars, critOwner, tlsVars, tcbVars, poolVars,
                         destrVars>>]_vars

\* C15 witness: the start-up code has acquired a held lock before OSStart()
C15_Witness ==
    /\ Ret(Main, "LockAcquire")
    /\ frame[Main].obj \in handles
    /\ OSRunning = OS_STATE_OS_STOPPED
    /\ MutexOwner[frame[Main].obj] = NULL

\* the tasks that have acquired the lock e and not released it
Holders(e) == {t \in Tasks : holding[t] = e}

InMutexCall(c) ==
    pc[c] \in {"LockCreate_mutex", "LockDel_mutex", "Acquire_pend", "Release_post"}

\* C17: a context that is about to call, or is waiting in, OSMutexCreate(),
\* OSMutexDel(), OSMutexPend() or OSMutexPost() is not inside a critical
\* section.
C17_NoMutexCallInCritical ==
    \A c \in Ctx : InMutexCall(c) => critOwner # c

\* C17 witness: a task waits in OSMutexPend() for a mutex another task owns
\* while a third context is inside a critical section
C17_Witness ==
    \E c \in Tasks : /\ pc[c] = "Acquire_pend"
                     /\ Mutex[frame[c].obj] = "CREATED"
                     /\ MutexOwner[frame[c].obj] \in Tasks \ {c}
                     /\ critOwner \in Tasks \ {c}

\* the call of c has passed the argument check and has not yet entered its
\* critical section
ValueChecked(c) == pc[c] \in {"GetValue_enter", "SetValue_enter"}

\* the call of c is in the critical section of OS_TLS_GetValue() or
\* OS_TLS_SetValue()
ValueInCrit(c) == pc[c] \in {"GetValue_crit", "SetValue_crit"}

\* C18 as stated: from the check of the id to the access of the table, a call
\* of OS_TLS_GetValue() or OS_TLS_SetValue() is inside its critical section.
C18_Original ==
    \A c \in Ctx : ((OS_CFG_ARG_CHK_EN /\ ValueChecked(c)) \/ ValueInCrit(c)) =>
                       critOwner = c

\* C18 amended: the check of the id is made before the critical section, and
\* other contexts run between it and the critical section; it stays valid
\* because OS_TLS_NextAvailID does not decrease.  The resolution of the task,
\* the test of its option and the access are in one critical section, in
\* which no other context takes a step.
C18_CheckThenOneCriticalSection ==
    /\ [](\A c \in Ctx :
             /\ ValueChecked(c) => critOwner # c
             /\ ValueInCrit(c) => critOwner = c
             /\ (OS_CFG_ARG_CHK_EN /\ (ValueChecked(c) \/ ValueInCrit(c))) =>
                   frame[c].id < OS_TLS_NextAvailID)
    /\ [][\A c \in Ctx : ValueInCrit(c) => pc'[c] = "ret" /\ critOwner' = NoCtx]_vars

\* C18 witness: a call is in its critical section while the call of another
\* context has passed its check of the id and not yet entered
C18_Witness ==
    \E c \in Ctx : \E d \in Ctx \ {c} :
        /\ OS_CFG_ARG_CHK_EN
        /\ ValueInCrit(c)
        /\ critOwner = c
        /\ ValueChecked(d)

\* C19 as stated: OS_TLS_SetDestruct() returns OS_ERR_TLS_ID_INVALID when the
\* id has not been issued by OS_TLS_GetID(), and OS_ERR_NONE when it has.
C19_SetDestructChecksId ==
    \A c \in Ctx : Ret(c, "SetDestruct") =>
        frame[c].err = IF frame[c].pre THEN OS_ERR_TLS_ID_INVALID ELSE OS_ERR_NONE

\* C19 failing case: after OS_TLS_Init(), a call with an id that has not
\* been issued has returned OS_ERR_NONE
C19_Witness ==
    \E c \in Ctx : /\ osInitDone
                   /\ Ret(c, "SetDestruct")
                   /\ frame[c].pre
                   /\ frame[c].id >= OS_TLS_NextAvailID
                   /\ frame[c].err = OS_ERR_NONE

\* C20 as stated: the deletion of a task with TLS enabled calls every
\* destructor registered with OS_TLS_SetDestruct() on an issued id; none is
\* left uncalled.
C20_DestructorsCalledAtDelete ==
    \A t \in Tasks : missed[t] = {}

\* C20 failing case: a task has been deleted and a destructor registered
\* before the deletion was not called
C20_Witness ==
    \E t \in Tasks : /\ tcbState[t] = "dormant"
                     /\ missed[t] # {}
                     /\ missed[t] \subseteq registered

\* the step in which OSTaskCreate() creates the task t
TaskCreateStep(t) == tcbState[t] = "dormant" /\ tcbState'[t] = "created"

\* C21: when a task is created with TLS enabled, OS_TLS_TaskCreate() takes
\* one segment from the allocator, initialises that segment and stores its
\* pointer in the library entry of the task's table; the other entries of
\* the table stay as OSTaskCreate() cleared them and the tables of the other
\* tasks do not change.  With TLS disabled nothing is allocated and no table
\* entry is written.
C21_CreateHook ==
    [][\A t \in Tasks : TaskCreateStep(t) =>
          /\ \A u \in Tasks \ {t} : TLS_Tbl'[u] = TLS_Tbl[u]
          /\ \A i \in Slots \ {OS_TLS_LibID} : TLS_Tbl'[t][i] = 0
          /\ IF Opt'[t] = OS_OPT_NONE
             THEN \E p_tls \in Segs \ {MainSeg} :
                     /\ segs' = segs \cup {p_tls}
                     /\ OS_TLS_TaskCreate(t, Opt'[t]).init = {p_tls}
                     /\ TLS_Tbl'[t][OS_TLS_LibID] = p_tls
             ELSE /\ segs' = segs
                  /\ OS_TLS_TaskCreate(t, Opt'[t]).init = {}
                  /\ TLS_Tbl'[t][OS_TLS_LibID] = 0]_vars

\* C21 witness: a task created with TLS has its segment in the library
\* entry and nothing else in its table, next to a task created without TLS
\* that has no segment
C21_Witness ==
    \E t \in Tasks : \E u \in Tasks \ {t} :
        /\ tcbState[t] = "created" /\ Opt[t] = OS_OPT_NONE
        /\ TLS_Tbl[t][OS_TLS_LibID] = perthread_allocate(t)
        /\ \A i \in Slots \ {OS_TLS_LibID} : TLS_Tbl[t][i] = 0
        /\ tcbState[u] = "created" /\ Opt[u] = OS_OPT_TASK_NO_TLS
        /\ TLS_Tbl[u] = [i \in Slots |-> 0]
        /\ segs = {perthread_allocate(t)}

\* the step in which OSTaskDel() deletes the task t
TaskDelStep(t) == tcbState[t] = "created" /\ tcbState'[t] = "dormant"

\* the segments the create hook has allocated for the tasks that exist
TaskSegs == {perthread_allocate(t) : t \in {u \in Created : Opt[u] = OS_OPT_NONE}}

\* C22 as stated: when a task with TLS is deleted, OS_TLS_TaskDel() reads the
\* segment pointer in the library entry of the task, runs the teardown of
\* the DLIB on that segment, whichever task is running, frees that segment
\* and clears the entry; the segments allocated are those of the tasks that
\* exist, each freed once at the deletion; the deletion of a task without
\* TLS frees nothing.
C22_DeleteHook ==
    /\ [](segs = TaskSegs)
    /\ [][\A t \in Tasks : TaskDelStep(t) =>
             LET p_tls == TLS_Tbl[t][OS_TLS_LibID]
                 r == OS_TLS_TaskDel(t) IN
               IF Opt[t] = OS_OPT_NONE
               THEN /\ r.torn = {p_tls}
                    /\ r.freed = {p_tls}
                    /\ segs' = segs \ {p_tls}
                    /\ r.tbl[OS_TLS_LibID] = 0
               ELSE /\ r.torn = {}
                    /\ r.freed = {}
                    /\ segs' = segs]_vars

\* C22 failing case: a task with TLS is running and another task with TLS
\* exists, which the running task can delete
C22_Witness ==
    \E t \in Created \ {OSTCBCurPtr} :
        /\ OSRunning = OS_STATE_OS_RUNNING
        /\ Opt[t] = OS_OPT_NONE
        /\ Opt[OSTCBCurPtr] = OS_OPT_NONE
        /\ pc[t] = "idle" /\ pc[OSTCBCurPtr] = "idle"
        /\ perthread_destroy(TLS_Tbl[t][OS_TLS_LibID]) # TLS_Tbl[t][OS_TLS_LibID]
        /\ perthread_destroy(TLS_Tbl[t][OS_TLS_LibID]) \in segs

\* the segment of the thread c: the static one for the start-up code, the
\* one the create hook allocated for a task
OwnSeg(c) == IF c = Main THEN MainSeg ELSE perthread_allocate(c)

\* what __iar_dlib_perthread_access() has returned to c is the address of the
\* base it had to use plus the offset of the symbol
AccessComputed(c) ==
    /\ frame[c].base = AccessBase
    /\ frame[c].ret = SegAddr(frame[c].base) + frame[c].value

SetValueStep(c) == pc[c] = "SetValue_crit" /\ pc'[c] = "ret"

\* C24 as stated: the table of a task changes only in a step of an
\* OS_TLS_SetValue() call made by that task, or when the task is created or
\* deleted.
C24_Original ==
    [][\A t \in Tasks : TLS_Tbl'[t] # TLS_Tbl[t] =>
          TaskCreateStep(t) \/ TaskDelStep(t) \/ SetValueStep(t)]_vars

\* C24 amended: the table of a task changes only when the task is created or
\* deleted, or in a step of an OS_TLS_SetValue() call that names the task:
\* p_tcb points at it, or p_tcb is NULL and the task is running.  Any context
\* can make that call; it changes the one entry id, to value.
C24_TableWrittenByNamedSet ==
    [][\A t \in Tasks : TLS_Tbl'[t] # TLS_Tbl[t] =>
          \/ TaskCreateStep(t)
          \/ TaskDelStep(t)
          \/ \E c \in Ctx :
                /\ SetValueStep(c)
                /\ frame'[c].err = OS_ERR_NONE
                /\ frame'[c].p_tcb = t
                /\ frame'[c].arg_tcb = t \/ (frame'[c].arg_tcb = NULL /\ OSTCBCurPtr = t)
                /\ TLS_Tbl' = [TLS_Tbl EXCEPT ![t][frame'[c].id] = frame'[c].value]]_vars

\* C24 witness: a task has returned from an OS_TLS_SetValue() call that
\* changed a register of another task
C24_Witness ==
    \E c \in Tasks : \E t \in Created \ {c} :
        /\ Ret(c, "SetValue")
        /\ frame[c].err = OS_ERR_NONE
        /\ frame[c].arg_tcb = t
        /\ frame[c].changed
        /\ TLS_Tbl[t][frame[c].id] = frame[c].value
        /\ frame[c].id # OS_TLS_LibID

\* C25: under fair scheduling, with every task that has acquired a lock
\* releasing it and no task being deleted, a task that waits in
\* OS_TLS_LockAcquire() for a lock returns from it, and it then owns the
\* mutex unless the lock was deleted while the task waited.
C25_AcquireReturns ==
    \A c \in Tasks : \A e \in Pool :
        (pc[c] = "Acquire_pend" /\ frame[c].obj = e)
            ~> (Ret(c, "LockAcquire") /\ (MutexOwner[e] = c \/ c \in stale))

\* C25 witness: OSMutexPost() has given the mutex to a task that waits in
\* OS_TLS_LockAcquire(), which has not run since
C25_Witness ==
    \E c \in Tasks :
        /\ pc[c] = "Acquire_pend"
        /\ MutexOwner[frame[c].obj] = c
        /\ OSTCBCurPtr # c
        /\ c \notin stale

\* ------------------------------------------------- the critical sections
\* the kernel while the start-up code creates the tasks and none is deleted
CritKernelNext ==
    \/ OS_TLS_Init
    \/ OS_TLS_Init_Body
    \/ OSStart
    \/ OS_TLS_TaskSw
    \/ \E t \in Tasks, opt \in {OS_OPT_NONE, OS_OPT_TASK_NO_TLS} : OSTaskCreate(Main, t, opt)
    \/ \E c \in Ctx : Return(c)

\* Get and Set on the caller's own table, one word stored
CritValueNext ==
    \/ \E c \in Ctx, id \in Ids : OS_TLS_GetValue_Call(c, NULL, id)
    \/ \E c \in Ctx : OS_TLS_GetValue_Enter(c)
    \/ \E c \in Ctx : OS_TLS_GetValue_Body(c, NULL)
    \/ \E c \in Ctx, id \in Ids : OS_TLS_SetValue_Call(c, NULL, id, 1)
    \/ \E c \in Ctx : OS_TLS_SetValue_Enter(c)
    \/ \E c \in Ctx : OS_TLS_SetValue_Body(c, NULL, 1)

\* the pool, its locks created through one entry point
CritPoolNext ==
    \/ \E c \in Ctx : iar_system_Mtxinit(c, 1)
    \/ \E c \in Ctx : OS_TLS_LockCreate_Body(c)
    \/ \E c \in Ctx, err \in {OS_ERR_NONE, OS_ERR_MUTEX} : OS_TLS_LockCreate_Mutex(c, err)
    \/ \E c \in Ctx : OS_TLS_LockCreate_UndoEnter(c)
    \/ \E c \in Ctx : OS_TLS_LockCreate_Undo(c)
    \/ \E c \in Ctx, p_lock \in Pool : OS_TLS_LockDel_Call(c, p_lock)
    \/ \E c \in Ctx : OS_TLS_LockDel_Mutex(c, OS_ERR_NONE)
    \/ \E c \in Ctx : OS_TLS_LockDel_Enter(c)
    \/ \E c \in Ctx : OS_TLS_LockDel_Body(c)

\* every service that disables interrupts
SpecCrit == Init /\ [][CritKernelNext \/ IdNext \/ CritValueNext \/ CritPoolNext]_vars

\* the positions between CPU_CRITICAL_ENTER() and CPU_CRITICAL_EXIT()
CritPcs == {"GetID_crit", "Init_crit", "GetValue_crit", "SetValue_crit",
            "LockCreate_crit", "LockCreate_undo_crit", "LockDel_crit"}

\* the call of context c enters its critical section in this step
CritEnter(c) == pc[c] \notin CritPcs /\ pc'[c] \in CritPcs
\* the call of context c leaves its critical section in this step
CritExit(c) == pc[c] \in CritPcs /\ pc'[c] \notin CritPcs

\* C26: a context has interrupts disabled exactly while its call is between
\* CPU_CRITICAL_ENTER() and CPU_CRITICAL_EXIT(), so no call has returned with
\* the critical section held, on an error path or not; a step that enters
\* the section finds it free and takes it, a step that leaves it held it and
\* frees it, and no other step changes who holds it.
C26_CriticalSectionBalanced ==
    /\ [](\A c \in Ctx : critOwner = c <=> pc[c] \in CritPcs)
    /\ [][\A c \in Ctx :
            /\ CritEnter(c) => critOwner = NoCtx /\ critOwner' = c
            /\ CritExit(c) => critOwner = c /\ critOwner' = NoCtx
            /\ (~CritEnter(c) /\ ~CritExit(c)) => ((critOwner = c) <=> (critOwner' = c))]_vars

\* C26 witness: OS_TLS_GetID() has returned OS_ERR_TLS_NO_MORE_AVAIL and
\* interrupts are enabled
C26_Witness ==
    \E c \in Ctx :
        /\ Ret(c, "GetID")
        /\ frame[c].err = OS_ERR_TLS_NO_MORE_AVAIL
        /\ critOwner = NoCtx

\* the state the services share: the counter, the tables, the free list
SharedState == <<OS_TLS_NextAvailID, TLS_Tbl, OS_TLS_LockPoolListPtr, NextPtr>>

\* the error codes of a refused OS_TLS_GetValue() or OS_TLS_SetValue()
ValueErrs == {OS_ERR_TLS_ID_INVALID, OS_ERR_OS_NOT_RUNNING, OS_ERR_TLS_NOT_EN}

\* The call of context c takes a step in which it does not succeed: a step
\* of OS_TLS_GetValue(); a step of OS_TLS_SetValue() or OS_TLS_GetID() other
\* than a return without error; the entry of OS_TLS_LockCreate() and its
\* return with the list found empty.
FailStep(c) ==
    /\ pc'[c] # pc[c]
    /\ \/ frame'[c].op = "GetValue"
       \/ /\ frame'[c].op = "SetValue"
          /\ pc'[c] = "ret" => frame'[c].err \in ValueErrs
       \/ /\ frame'[c].op = "GetID"
          /\ pc'[c] = "ret" => frame'[c].err = OS_ERR_TLS_NO_MORE_AVAIL
       \/ /\ frame'[c].op = "LockCreate"
          /\ pc[c] = "idle" \/ (pc[c] = "LockCreate_crit" /\ pc'[c] = "ret")

\* C27: no step of a call that fails changes the counter, a TLS table, the
\* head of the free list or a NextPtr: OS_TLS_GetValue() and OS_TLS_SetValue()
\* returning OS_ERR_TLS_ID_INVALID, OS_ERR_OS_NOT_RUNNING or OS_ERR_TLS_NOT_EN,
\* OS_TLS_GetID() returning OS_ERR_TLS_NO_MORE_AVAIL, OS_TLS_LockCreate()
\* returning NULL with the list empty; nor does a step of an
\* OS_TLS_GetValue() that succeeds.
C27_FailedCallsChangeNothing ==
    [][\A c \in Ctx : FailStep(c) => UNCHANGED SharedState]_vars

\* C27 witness: with the counter at its limit, a value in a table and the
\* free list empty, an OS_TLS_SetValue() has returned OS_ERR_TLS_NOT_EN
C27_Witness ==
    \E c \in Tasks :
        /\ Ret(c, "SetValue")
        /\ frame[c].err = OS_ERR_TLS_NOT_EN
        /\ OS_TLS_NextAvailID = OS_CFG_TLS_TBL_SIZE
        /\ \E t \in Tasks, i \in Slots : i # OS_TLS_LibID /\ TLS_Tbl[t][i] # NULL
        /\ osInitDone /\ OS_TLS_LockPoolListPtr = NULL

\* The list from OS_TLS_LockPoolListPtr reaches NULL after at most
\* OS_TLS_LOCK_MAX objects, all of them of the pool and no two the same.
ListWellFormed ==
    /\ Len(FreeList) <= OS_TLS_LOCK_MAX
    /\ \A i \in 1..Len(FreeList) : FreeList[i] \in Pool
    /\ \A i, j \in 1..Len(FreeList) : FreeList[i] = FreeList[j] => i = j
    /\ FreeList # <<>> => NextPtr[FreeList[Len(FreeList)]] = NULL

\* C28: with OS_TLS_LockDel() called only with NULL or with a lock that is
\* checked out, the list from OS_TLS_LockPoolListPtr is in every state
\* finite, without a cycle, ended by NULL and made of objects of the pool,
\* none of them twice; and when OS_TLS_Init() returns the list is the whole
\* pool in the order of the indices.
C28_FreeListWellFormed ==
    /\ []ListWellFormed
    /\ [][OS_TLS_Init_Body => FreeList' = [i \in 1..OS_TLS_LOCK_MAX |-> i]]_vars

\* C28 witness: creates and deletes have put the whole pool back on the list
\* in another order than the one OS_TLS_Init() gave it
C28_Witness ==
    /\ osInitDone
    /\ Len(FreeList) = OS_TLS_LOCK_MAX
    /\ FreeList[1] # 1
    /\ \E c \in Ctx : Ret(c, "LockDel") /\ frame[c].obj # NULL
====
